---- MODULE Spec2Model ----
(***************************************************************************)
(* A model of src/firewall.c of wsock-trace: the session with the Windows  *)
(* Filtering Platform engine, the negotiation of the API level of the      *)
(* event subscription, the two lookup caches (filter names, SIDs) and the  *)
(* decoder / visibility filter `fw_event_callback()`.                      *)
(*                                                                         *)
(* File-scope variables of firewall.c are the VARIABLES below and keep     *)
(* their names.  Functions are operators from a record of the globals they *)
(* may write (`Globals`) to the record after the call; what the engine and *)
(* the identity resolver answer is an input of the operator, chosen by the *)
(* action that uses it.                                                    *)
(***************************************************************************)
EXTENDS Integers, Sequences, FiniteSets, TLC

VARIABLES
  g_cfg,             \* g_cfg.firewall: show_all, show_ipv4, show_ipv6, show_user
  excl,              \* the exclusion lists: [program, address] (sets of texts)
  env,               \* the process, build and system: ws_sema_inherited, sizes_ok,
                     \* exports (the entry points the installed DLLs export)
  funcs,             \* the loaded entry points of `fw_funcs[]` (p_Xxx != NULL)
  fw_api,            \* the configured API level
  fw_policy_handle,
  fw_engine_handle,
  fw_event_handle,
  fw_errno,
  fw_num_events,
  fw_num_ignored,
  fw_num_rules,      \* the number fw_dump_rule() gave to the last rule it printed
  fw_filter_list,    \* cache: sequence of struct filter_entry
  fw_SID_list,       \* cache: sequence of struct SID_entry
  fw_lists,          \* fw_filter_list and fw_SID_list are smartlists (not NULL)
  resolved,          \* history: the keys given to the resolvers since the caches were made
  subscriptions,     \* engine side: the levels of the live subscriptions, oldest first
  calls,             \* history: calls on the engine / resolver made by the last operation
  last,              \* history: the last operation, its inputs and its result
  inflight           \* the engine's threads: where each is in the callback it runs

vars == << g_cfg, excl, env, funcs, fw_api, fw_policy_handle,
           fw_engine_handle, fw_event_handle, fw_errno, fw_num_events,
           fw_num_ignored, fw_num_rules, fw_filter_list, fw_SID_list, fw_lists,
           resolved, subscriptions, calls, last, inflight >>

-----------------------------------------------------------------------------
(* Program constants.                                                      *)

FW_API_LOW     == 0
FW_API_HIGH    == 4
FW_API_DEFAULT == 3
MAX_DOMAIN_SZ  == 20
MAX_ACCOUNT_SZ == 30

INVALID_HANDLE_VALUE == "INVALID_HANDLE_VALUE"
NULL                 == "NULL"

ERROR_SUCCESS      == "ERROR_SUCCESS"
ERROR_BAD_COMMAND  == "ERROR_BAD_COMMAND"
ERROR_INVALID_DATA == "ERROR_INVALID_DATA"
FW_FUNC_ERROR      == "ERROR_FUNCTION_FAILED"

Levels == FW_API_LOW .. FW_API_HIGH

(* The name of a level's entry point in the table `fw_funcs[]`.            *)
Fn(name)       == << name, 0 >>
SubscribeFn(N) == << "FwpmNetEventSubscribe", N >>
EnumFn(N)      == << "FwpmNetEventEnum", N >>

(* The table `fw_funcs[]`: every entry point load_dynamic_table() looks    *)
(* for.  (FwpmNetEventEnum5 is in the table and is never called.)          *)
fw_funcs ==
  { Fn("FWOpenPolicyStore"), Fn("FWClosePolicyStore"), Fn("FWEnumFirewallRules"),
    Fn("FWFreeFirewallRules"), Fn("FWStatusMessageFromStatusCode"),
    Fn("FwpmNetEventUnsubscribe"), Fn("FwpmFreeMemory"), Fn("FwpmEngineClose"),
    Fn("FwpmEngineOpen"), Fn("FwpmEngineSetOption"), Fn("FwpmLayerGetById"),
    Fn("FwpmFilterGetById"), Fn("FwpmCalloutCreateEnumHandle"), Fn("FwpmCalloutEnum"),
    Fn("FwpmCalloutDestroyEnumHandle"), Fn("FwpmNetEventCreateEnumHandle"),
    Fn("FwpmNetEventDestroyEnumHandle"), Fn("GetSystemTimePreciseAsFileTime"),
    EnumFn(5) }
  \cup { SubscribeFn(N) : N \in Levels } \cup { EnumFn(N) : N \in Levels }

(* The error code the engine gives when its call at level N fails.  The    *)
(* codes of different levels differ, so that one level's error cannot be   *)
(* taken for another's.                                                    *)
EngineError(N) ==
  CASE N = 0 -> "FWP_E_0" [] N = 1 -> "FWP_E_1" [] N = 2 -> "FWP_E_2"
    [] N = 3 -> "FWP_E_3" [] N = 4 -> "FWP_E_4" [] OTHER -> "FWP_E_X"

-----------------------------------------------------------------------------
(* The globals a function may write, as one record.                        *)

Globals ==
  [ fw_policy_handle |-> fw_policy_handle,
    fw_engine_handle |-> fw_engine_handle,
    fw_event_handle  |-> fw_event_handle,
    fw_errno         |-> fw_errno,
    fw_num_events    |-> fw_num_events,
    fw_num_ignored   |-> fw_num_ignored,
    fw_num_rules     |-> fw_num_rules,
    fw_filter_list   |-> fw_filter_list,
    fw_SID_list      |-> fw_SID_list,
    fw_lists         |-> fw_lists,
    funcs            |-> funcs,
    resolved         |-> resolved,
    subscriptions    |-> subscriptions,
    excl             |-> excl,
    calls            |-> << >>,
    emitted          |-> 0,          \* fw_buf_flush() calls of this operation
    fault            |-> FALSE,      \* a read through a NULL pointer happened
    direction        |-> "unknown",  \* direction_in / direction_out of the event decoded
    slots            |-> { },        \* the payload pointers given to fw_event_callback() that are not NULL
    reads            |-> { },        \* the payload fields read: << pointer, field >>
    reported         |-> << >>,      \* the rules fw_dump_rule() printed, with their numbers
    ret              |-> FALSE ]

Store(g) ==
  /\ fw_policy_handle' = g.fw_policy_handle
  /\ fw_engine_handle' = g.fw_engine_handle
  /\ fw_event_handle'  = g.fw_event_handle
  /\ fw_errno'         = g.fw_errno
  /\ fw_num_events'    = g.fw_num_events
  /\ fw_num_ignored'   = g.fw_num_ignored
  /\ fw_num_rules'     = g.fw_num_rules
  /\ fw_filter_list'   = g.fw_filter_list
  /\ fw_SID_list'      = g.fw_SID_list
  /\ fw_lists'         = g.fw_lists
  /\ funcs'            = g.funcs
  /\ resolved'         = g.resolved
  /\ subscriptions'    = g.subscriptions
  /\ excl'             = g.excl
  /\ calls'            = g.calls

Call(g, fn, arg, rc) ==
  [g EXCEPT !.calls = Append(@, [fn |-> fn, arg |-> arg, rc |-> rc])]

Return(g, v) == [g EXCEPT !.ret = v]

SetErrno(g, rc) == [g EXCEPT !.fw_errno = rc]

(* A read through a NULL pointer (a missing payload, a freed list).        *)
Fault(g) == [g EXCEPT !.fault = TRUE]

-----------------------------------------------------------------------------
(* The session with the engine.                                            *)

(* fw_load_funcs(): enough of the table must be loaded; the 4 + 5 newer    *)
(* subscribe / enum entry points may be missing.                           *)
load_dynamic_table == fw_funcs \cap env.exports

fw_load_funcs(g) ==
  LET functions_needed == Cardinality(fw_funcs) - (4 + 5)
      g1 == IF Cardinality(g.funcs) = 0
              THEN [g EXCEPT !.funcs = load_dynamic_table] ELSE g
  IN  IF Cardinality(g.funcs) >= functions_needed THEN Return(g, TRUE)
      ELSE IF Cardinality(g1.funcs) < functions_needed
        THEN Return(SetErrno(g1, FW_FUNC_ERROR), FALSE)
      ELSE Return(g1, TRUE)

(* The program's own module, GetModuleFileName(), and the logged-on user,  *)
(* GetUserName(), as fw_init() finds them.  A path is its directory and    *)
(* its base name.                                                          *)
fw_module         == [dir |-> "c:\\bin\\", base |-> "fw_test.exe"]
fw_logged_on_user == "alice"

(* exclude_list_add (name, EXCL_PROGRAM).                                  *)
exclude_list_add(x, name) == [x EXCEPT !.program = @ \cup {name}]

(* fw_init(): new caches, the own module excluded unless show_all, the     *)
(* entry points loaded and the policy store opened (rc is its answer).     *)
fw_init(g, rc) ==
  LET g0 == [g EXCEPT !.fw_SID_list = << >>, !.fw_filter_list = << >>,
                      !.fw_lists = TRUE, !.fw_num_rules = 0,
                      !.resolved = [filter |-> << >>, sid |-> << >>],
                      !.excl = IF g_cfg.show_all = FALSE
                                 THEN exclude_list_add(@, fw_module) ELSE @]
      g1 == fw_load_funcs(g0)
  IN  IF ~g1.ret THEN g1
      ELSE IF Fn("FWOpenPolicyStore") \notin g1.funcs THEN Fault(g1)
        ELSE LET g2 == Call(SetErrno(g1, rc), "FWOpenPolicyStore", 0, rc)
             IN  Return([g2 EXCEPT !.fw_policy_handle =
                                      IF rc = ERROR_SUCCESS THEN "POLICY" ELSE @],
                        rc = ERROR_SUCCESS)

(* A fw_create_engine() that opens the engine again when it is open.  C22  *)
(* does not hold of it.                                                    *)
fw_create_engine_again(g, rc) ==
  IF Fn("FwpmEngineOpen") \notin g.funcs
    THEN Return(SetErrno(g, FW_FUNC_ERROR), FALSE)
  ELSE LET g1 == Call(g, "FwpmEngineOpen0", 0, rc)
       IN  IF rc # ERROR_SUCCESS
             THEN Return(SetErrno(g1, rc), FALSE)
             ELSE Return([g1 EXCEPT !.fw_engine_handle = "ENGINE"], TRUE)

(* fw_create_engine(): open the engine unless it is open.                  *)
fw_create_engine(g, rc) ==
  IF g.fw_engine_handle # INVALID_HANDLE_VALUE
    THEN Return(g, TRUE)
  ELSE IF Fn("FwpmEngineOpen") \notin g.funcs
    THEN Return(SetErrno(g, FW_FUNC_ERROR), FALSE)
  ELSE LET g1 == Call(g, "FwpmEngineOpen0", 0, rc)
       IN  IF rc # ERROR_SUCCESS
             THEN Return(SetErrno(g1, rc), FALSE)
             ELSE Return([g1 EXCEPT !.fw_engine_handle = "ENGINE"], TRUE)

(* The three FwpmEngineSetOption0() calls of fw_monitor_init(), from the   *)
(* n-th on; `bad` is the call the engine refuses (0: none).                *)
RECURSIVE SetOptions(_, _, _)
SetOptions(g, n, bad) ==
  IF n > 3 THEN Return(g, TRUE)
  ELSE LET rc == IF n = bad THEN "FWP_E_OPTION" ELSE ERROR_SUCCESS
           g1 == Call(g, "FwpmEngineSetOption0", n, rc)
       IN  IF rc # ERROR_SUCCESS
             THEN Return(SetErrno(g1, rc), FALSE)
             ELSE SetOptions(g1, n + 1, bad)

(* A fw_monitor_init() that does not open the engine.  C24 does not hold   *)
(* of it.                                                                  *)
fw_monitor_init_unopened(g, in) ==
  IF g.fw_policy_handle = INVALID_HANDLE_VALUE THEN Return(g, FALSE)
  ELSE IF Fn("FwpmEngineSetOption") \notin g.funcs
    THEN Return(SetErrno(g, FW_FUNC_ERROR), FALSE)
  ELSE LET g2 == SetOptions(g, 1, in.opt)
       IN  IF ~g2.ret THEN g2
           ELSE Return(SetErrno(g2, ERROR_SUCCESS), TRUE)

(* fw_monitor_init(): needs fw_init(), the engine and its options.         *)
fw_monitor_init(g, in) ==
  IF g.fw_policy_handle = INVALID_HANDLE_VALUE THEN Return(g, FALSE)
  ELSE LET g1 == fw_create_engine(g, in.open)
       IN  IF ~g1.ret THEN Return(g1, FALSE)
           ELSE IF Fn("FwpmEngineSetOption") \notin g.funcs
             THEN Return(SetErrno(g1, FW_FUNC_ERROR), FALSE)
           ELSE LET g2 == SetOptions(g1, 1, in.opt)
                IN  IF ~g2.ret THEN g2
                    ELSE Return(SetErrno(g2, ERROR_SUCCESS), TRUE)

(* What the engine answers to FwpmNetEventSubscribeN().                    *)
SubscribeRc(in, N) == IF in.sub[N] THEN ERROR_SUCCESS ELSE EngineError(N)

(* The call in SET_API_CALLBACK(N): on success the engine registers        *)
(* fw_event_callbackN and gives the event handle.                          *)
Subscribe(g, N, rc) ==
  LET g1 == Call(SetErrno(g, rc), "FwpmNetEventSubscribe", N, rc)
  IN  IF rc = ERROR_SUCCESS
        THEN [g1 EXCEPT !.fw_event_handle = "EVENT",
                        !.subscriptions = Append(@, N)]
        ELSE g1

(* A SET_API_CALLBACK(N) that goes on to the next lower level when the    *)
(* entry point of the level is not exported.  C3 does not hold of it.      *)
RECURSIVE SET_API_CALLBACK_skipping(_, _, _, _)
SET_API_CALLBACK_skipping(g, N, api_level, in) ==
  IF N < FW_API_LOW THEN Return(g, FALSE)
  ELSE IF api_level >= N /\ SubscribeFn(N) \in g.funcs
    THEN IF SubscribeRc(in, N) = ERROR_SUCCESS
           THEN Return(Subscribe(g, N, SubscribeRc(in, N)), TRUE)
           ELSE SET_API_CALLBACK_skipping(Subscribe(g, N, SubscribeRc(in, N)),
                                          N - 1, api_level, in)
  ELSE SET_API_CALLBACK_skipping(g, N - 1, api_level, in)

(* SET_API_CALLBACK(N) for N, N-1, .. 0 and the end of                     *)
(* fw_monitor_subscribe().  `api_level` is never changed by the macro.     *)
RECURSIVE SET_API_CALLBACK(_, _, _, _)
SET_API_CALLBACK(g, N, api_level, in) ==
  IF N < FW_API_LOW THEN Return(g, FALSE)
  ELSE LET try == api_level = N /\ SubscribeFn(N) \in g.funcs
           g1  == IF try THEN Subscribe(g, N, SubscribeRc(in, N)) ELSE g
       IN  IF try /\ g1.fw_errno = ERROR_SUCCESS
             THEN Return(g1, TRUE)
           ELSE IF api_level >= N /\ SubscribeFn(N) \notin g.funcs
             THEN Return(SetErrno(g1, ERROR_BAD_COMMAND), FALSE)
           ELSE SET_API_CALLBACK(g1, N - 1, api_level, in)

(* A fw_monitor_subscribe() without the check of the range of the level.  *)
(* C5 does not hold of it.                                                 *)
fw_monitor_subscribe_unchecked(g, in) ==
  SET_API_CALLBACK(g, FW_API_HIGH, fw_api, in)

fw_monitor_subscribe(g, in) ==
  LET api_level == fw_api
  IN  IF api_level < FW_API_LOW \/ api_level > FW_API_HIGH
        THEN Return(SetErrno(g, ERROR_INVALID_DATA), FALSE)
        ELSE SET_API_CALLBACK(g, FW_API_HIGH, api_level, in)

(* fw_check_sizes(): the layout checks of the build.                       *)
fw_check_sizes(g) ==
  IF env.sizes_ok THEN Return(SetErrno(g, ERROR_SUCCESS), TRUE)
                  ELSE Return(SetErrno(g, FW_FUNC_ERROR), FALSE)

(* A fw_monitor_start() that leaves the counters as they are.  C14 does   *)
(* not hold of it.                                                         *)
fw_monitor_start_keeping(g, in) ==
  IF env.ws_sema_inherited THEN Return(g, FALSE)
  ELSE LET g1 == fw_check_sizes(g)
       IN  IF ~g1.ret THEN g1
           ELSE LET g2 == fw_monitor_init(g1, in)
                IN  IF ~g2.ret THEN g2
                    ELSE fw_monitor_subscribe(g2, in)

fw_monitor_start(g, in) ==
  LET g0 == [g EXCEPT !.fw_num_events = 0, !.fw_num_ignored = 0]
  IN  IF env.ws_sema_inherited THEN Return(g0, FALSE)
      ELSE LET g1 == fw_check_sizes(g0)
           IN  IF ~g1.ret THEN g1
               ELSE LET g2 == fw_monitor_init(g1, in)
                    IN  IF ~g2.ret THEN g2
                        ELSE fw_monitor_subscribe(g2, in)

(* A fw_monitor_stop() that closes the engine without a look at its       *)
(* handle.  C23 does not hold of it.                                       *)
fw_monitor_stop_unguarded(g, force) ==
  LET g1 == IF force THEN Call(g, "CloseHandle", 2, ERROR_SUCCESS)
            ELSE [Call(g, "FwpmEngineClose0", 0, ERROR_SUCCESS)
                    EXCEPT !.subscriptions = << >>]
  IN  [g1 EXCEPT !.fw_event_handle = INVALID_HANDLE_VALUE,
                 !.fw_engine_handle = INVALID_HANDLE_VALUE]

(* fw_monitor_stop().  A forced stop only gives the two handles to         *)
(* CloseHandle(); the engine is told nothing, its subscriptions stay.      *)
fw_monitor_stop(g, force) ==
  LET unsub == /\ g.fw_engine_handle # INVALID_HANDLE_VALUE
               /\ g.fw_event_handle # INVALID_HANDLE_VALUE
               /\ Fn("FwpmNetEventUnsubscribe") \in g.funcs
      close == /\ g.fw_engine_handle # INVALID_HANDLE_VALUE
               /\ Fn("FwpmEngineClose") \in g.funcs
      f1 == IF g.fw_event_handle # INVALID_HANDLE_VALUE
              THEN Call(g, "CloseHandle", 1, ERROR_SUCCESS) ELSE g
      f2 == IF g.fw_engine_handle # INVALID_HANDLE_VALUE
              THEN Call(f1, "CloseHandle", 2, ERROR_SUCCESS) ELSE f1
      u1 == IF unsub
              THEN [Call(g, "FwpmNetEventUnsubscribe0", 0, ERROR_SUCCESS)
                      EXCEPT !.subscriptions = SubSeq(@, 1, Len(@) - 1)]
              ELSE g
      u2 == IF close
              THEN [Call(u1, "FwpmEngineClose0", 0, ERROR_SUCCESS)
                      EXCEPT !.subscriptions = << >>]
              ELSE u1
      g1 == IF force THEN f2 ELSE u2
  IN  [g1 EXCEPT !.fw_event_handle = INVALID_HANDLE_VALUE,
                 !.fw_engine_handle = INVALID_HANDLE_VALUE]

-----------------------------------------------------------------------------
(* Texts.  stricmp() compares without case; the texts of the model that    *)
(* have upper-case letters are listed with their lower-case form.          *)

tolower(s) ==
  CASE s = "ALICE"       -> "alice"
    [] s = "Alice"       -> "alice"
    [] s = "FW_TEST.EXE" -> "fw_test.exe"
    [] s = "C:\\BIN\\"   -> "c:\\bin\\"
    [] OTHER             -> s

stricmp(a, b) == IF tolower(a) = tolower(b) THEN 0 ELSE 1

(* _strlcpy (dst, src, size): at most size-1 characters of src.            *)
strlcpy(src, size) ==
  IF Len(src) < size THEN src ELSE SubSeq(src, 1, size - 1)

(* A path is its directory and its base name; basename() drops the         *)
(* directory.  No path: appId.data == NULL or appId.size == 0.             *)
NoPath      == [dir |-> "", base |-> ""]
basename(p) == [dir |-> "", base |-> p.base]

path_stricmp(p, q) ==
  IF stricmp(p.dir, q.dir) = 0 /\ stricmp(p.base, q.base) = 0 THEN 0 ELSE 1

(* volume_to_path(): "\Device\HarddiskVolume<d>\.." becomes the drive      *)
(* letter 'a' - '0' + d; every other path stays.                           *)
volume_to_path(p) ==
  IF p.dir = "\\Device\\HarddiskVolume2\\bin\\"
    THEN [p EXCEPT !.dir = "c:\\bin\\"]
    ELSE p

(* exclude_list_get (text, EXCL_PROGRAM | EXCL_ADDRESS).                   *)
exclude_list_get(x, text, what) ==
  IF what = "EXCL_PROGRAM" THEN text \in x.program ELSE text \in x.address

(* A SID object: where it lives and its bytes.  EqualSid() compares the    *)
(* bytes; ConvertSidToStringSid() gives the text of the bytes.             *)
NoSid          == [obj |-> 0, bytes |-> 0]
EqualSid(a, b) == a.bytes = b.bytes
CopySid(sid)   == [obj |-> 0, bytes |-> sid.bytes]
NULL_SID       == "S-1-0-0"

ConvertSidToStringSid(sid) ==
  CASE sid.bytes = 1 -> NULL_SID
    [] sid.bytes = 2 -> "S-1-5-18"
    [] sid.bytes = 3 -> "S-1-5-21-1004336348-1177238915-682003330-1001"
    [] sid.bytes = 4 -> "S-1-15-3-4214768333-1334025770-122408079-3919188833"
    [] OTHER         -> "S-1-5-32-544"

(* inet_ntop() of the (byte-swapped) address of the header.                *)
inet_ntop(af, addr) ==
  IF af = "AF_INET"
    THEN CASE addr = 1 -> "10.0.0.1" [] addr = 2 -> "8.8.8.8" [] OTHER -> "0.0.0.0"
    ELSE CASE addr = 1 -> "fe80::1"  [] addr = 2 -> "2001:db8::2" [] OTHER -> "::"

-----------------------------------------------------------------------------
(* The two caches.                                                         *)

(* The first index of a set of indexes, 0 if there is none: where the      *)
(* loops over smartlist_get (list, i) stop.                                *)
FirstIndex(S) == IF S = {} THEN 0 ELSE CHOOSE k \in S : \A j \in S : k <= j

null_filter == [value |-> 0, name |-> "NULL"]

(* smartlist_add (list, e).                                                *)
smartlist_add(list, e) == Append(list, e)

(* The entry a miss of lookup_or_add_filter() makes: the name the engine   *)
(* gives, "?" if FwpmFilterGetById0() fails.                               *)
filter_entry(filter, ans) ==
  [value |-> filter, name |-> IF ans.ok THEN ans.name ELSE "?"]

(* A lookup_or_add_filter() that does not look in the cache first.  C6     *)
(* does not hold of it.                                                    *)
lookup_or_add_filter_uncached(g, filter, ans) ==
  IF filter = 0 THEN [g |-> g, entry |-> null_filter]
  ELSE IF ~g.fw_lists THEN [g |-> Fault(g), entry |-> null_filter]
  ELSE [g |-> [Call(g, "FwpmFilterGetById0", filter,
                    IF ans.ok THEN ERROR_SUCCESS ELSE "FWP_E_FILTER_NOT_FOUND")
                 EXCEPT !.fw_filter_list = smartlist_add(@, filter_entry(filter, ans)),
                        !.resolved.filter = Append(@, [key |-> filter, ok |-> ans.ok])],
        entry |-> filter_entry(filter, ans)]

(* A lookup_or_add_filter() for which 0 is a filter as any other.  C33     *)
(* does not hold of it.                                                    *)
lookup_or_add_filter_any(g, filter, ans) ==
  IF ~g.fw_lists THEN [g |-> Fault(g), entry |-> null_filter]
  ELSE LET i == FirstIndex({ k \in 1 .. Len(g.fw_filter_list) :
                                filter = g.fw_filter_list[k].value })
       IN  IF i # 0 THEN [g |-> g, entry |-> g.fw_filter_list[i]]
           ELSE [g |-> [Call(g, "FwpmFilterGetById0", filter,
                             IF ans.ok THEN ERROR_SUCCESS ELSE "FWP_E_FILTER_NOT_FOUND")
                          EXCEPT !.fw_filter_list = smartlist_add(@, filter_entry(filter, ans)),
                                 !.resolved.filter = Append(@, [key |-> filter, ok |-> ans.ok])],
                 entry |-> filter_entry(filter, ans)]

(* lookup_or_add_filter (filter): [g, entry].  `ans` is what               *)
(* FwpmFilterGetById0() answers if it is asked.                            *)
lookup_or_add_filter(g, filter, ans) ==
  IF filter = 0 THEN [g |-> g, entry |-> null_filter]
  ELSE IF ~g.fw_lists THEN [g |-> Fault(g), entry |-> null_filter]
  ELSE LET i == FirstIndex({ k \in 1 .. Len(g.fw_filter_list) :
                                filter = g.fw_filter_list[k].value })
       IN  IF i # 0 THEN [g |-> g, entry |-> g.fw_filter_list[i]]
           ELSE [g |-> [Call(g, "FwpmFilterGetById0", filter,
                             IF ans.ok THEN ERROR_SUCCESS ELSE "FWP_E_FILTER_NOT_FOUND")
                          EXCEPT !.fw_filter_list = smartlist_add(@, filter_entry(filter, ans)),
                                 !.resolved.filter = Append(@, [key |-> filter, ok |-> ans.ok])],
                 entry |-> filter_entry(filter, ans)]

(* A lookup_account_SID() that copies the whole text of a SID that has no  *)
(* account mapping.  C7 does not hold of it.                               *)
lookup_account_SID_whole(sid, sid_str, ans) ==
  IF ans.kind = "none_mapped"
    THEN [account |-> sid_str, domain |-> "", ret |-> TRUE]
  ELSE IF ans.kind = "mapped"
    THEN [account |-> ans.account, domain |-> ans.domain, ret |-> TRUE]
  ELSE [account |-> "", domain |-> "", ret |-> FALSE]

(* lookup_account_SID(): the account and domain of a SID.  `ans.kind` is   *)
(* what LookupAccountSid() does: "mapped" (it knows ans.account and        *)
(* ans.domain), "none_mapped" (no mapping: the first call says so) or      *)
(* "failed".  The sizes the first call asks for are cut to the buffers,    *)
(* and the second call fails when a name does not fit in its size.  The    *)
(* entry was calloc()ed: what is not written stays "".                     *)
lookup_account_SID(sid, sid_str, ans) ==
  LET domain_sz  == IF Len(ans.domain) + 1 > MAX_ACCOUNT_SZ
                      THEN MAX_DOMAIN_SZ ELSE Len(ans.domain) + 1
      account_sz == IF Len(ans.account) + 1 > MAX_ACCOUNT_SZ
                      THEN MAX_ACCOUNT_SZ ELSE Len(ans.account) + 1
  IN  IF ans.kind = "none_mapped"
        THEN [account |-> strlcpy(sid_str, MAX_ACCOUNT_SZ), domain |-> "", ret |-> TRUE]
      ELSE IF /\ ans.kind = "mapped"
              /\ Len(ans.account) < account_sz
              /\ Len(ans.domain) < domain_sz
        THEN [account |-> ans.account, domain |-> ans.domain, ret |-> TRUE]
      ELSE [account |-> "", domain |-> "", ret |-> FALSE]

(* The entry a miss of lookup_or_add_SID() makes.                          *)
SID_entry(sid, r) ==
  [sid_copy |-> CopySid(sid), sid_str |-> ConvertSidToStringSid(sid),
   account |-> r.account, domain |-> r.domain]

(* A lookup_or_add_SID() that compares the pointers: the SID object of the *)
(* caller with the copy of the entry.  C34 does not hold of it.            *)
lookup_or_add_SID_by_pointer(g, sid, ans) ==
  LET i == FirstIndex({ k \in 1 .. Len(g.fw_SID_list) :
                           sid.obj = g.fw_SID_list[k].sid_copy.obj })
      se == SID_entry(sid, lookup_account_SID(sid, ConvertSidToStringSid(sid), ans))
  IN  IF ~g.fw_lists
        THEN [g |-> Fault(g), entry |-> [sid_copy |-> NoSid, sid_str |-> "",
                                         account |-> "", domain |-> ""]]
      ELSE IF i # 0 THEN [g |-> g, entry |-> g.fw_SID_list[i]]
      ELSE [g |-> [Call(g, "LookupAccountSid", sid.bytes, ans.kind)
                     EXCEPT !.fw_SID_list = smartlist_add(@, se),
                            !.resolved.sid = Append(@, [key |-> sid.bytes,
                                                        kind |-> ans.kind])],
            entry |-> se]

(* lookup_or_add_SID (sid): [g, entry].                                    *)
lookup_or_add_SID(g, sid, ans) ==
  LET i == FirstIndex({ k \in 1 .. Len(g.fw_SID_list) :
                           EqualSid(sid, g.fw_SID_list[k].sid_copy) })
      se == SID_entry(sid, lookup_account_SID(sid, ConvertSidToStringSid(sid), ans))
  IN  IF ~g.fw_lists
        THEN [g |-> Fault(g), entry |-> [sid_copy |-> NoSid, sid_str |-> "",
                                         account |-> "", domain |-> ""]]
      ELSE IF i # 0 THEN [g |-> g, entry |-> g.fw_SID_list[i]]
      ELSE [g |-> [Call(g, "LookupAccountSid", sid.bytes, ans.kind)
                     EXCEPT !.fw_SID_list = smartlist_add(@, se),
                            !.resolved.sid = Append(@, [key |-> sid.bytes,
                                                        kind |-> ans.kind])],
            entry |-> se]

-----------------------------------------------------------------------------
(* Events.  A header has the set of its FWPM_NET_EVENT_FLAG_x_SET flags    *)
(* and its fields; a payload is what the member of the union of the event  *)
(* points to (`null`: the pointer is NULL).                                *)

FWP_DIRECTION_IN       == 14592      \* 0x00003900
FWP_DIRECTION_OUT      == 14593      \* 0x00003901
FWP_DIRECTION_FORWARD  == 14594      \* 0x00003902
FWP_DIRECTION_OUTBOUND == 0          \* enum FWP_DIRECTION of the SDK
FWP_DIRECTION_INBOUND  == 1

CLASSIFY_DROP     == "FWPM_NET_EVENT_TYPE_CLASSIFY_DROP"
CLASSIFY_ALLOW    == "FWPM_NET_EVENT_TYPE_CLASSIFY_ALLOW"
CAPABILITY_DROP   == "FWPM_NET_EVENT_TYPE_CAPABILITY_DROP"
CAPABILITY_ALLOW  == "FWPM_NET_EVENT_TYPE_CAPABILITY_ALLOW"
IKEEXT_MM_FAILURE == "FWPM_NET_EVENT_TYPE_IKEEXT_MM_FAILURE"

(* The event types fw_event_callback() decodes.                            *)
Decoded == {CLASSIFY_DROP, CLASSIFY_ALLOW, CAPABILITY_DROP, CAPABILITY_ALLOW}

NullPayload == [null |-> TRUE, msFwpDirection |-> 0, filterId |-> 0, layerId |-> 0]

(* A read through a payload pointer.  Through NULL it is undefined: `ub`   *)
(* is what the read does, a fault (ub.null) or some payload.               *)
Deref(p, ub) == IF p.null THEN ub ELSE p

Ignore(g) == [g EXCEPT !.fw_num_ignored = @ + 1]
Flush(g)  == [g EXCEPT !.fw_num_events = @ + 1, !.emitted = @ + 1]

(* print_layer_item(): FwpmLayerGetById0() for a layer id other than 0.    *)
print_layer_item(g, p) ==
  IF p.layerId # 0 THEN Call(g, "FwpmLayerGetById0", p.layerId, ERROR_SUCCESS) ELSE g

(* print_filter_rule(): the filter of a classify event, if it has one.     *)
print_filter_rule(g, p, res) ==
  IF p.filterId # 0 THEN lookup_or_add_filter(g, p.filterId, res.filter).g ELSE g

(* print_layer_item2() of a capability event reads the payload `p` and     *)
(* looks its filter up if it is not 0.                                     *)
print_layer_item2(g, p, res) ==
  IF p.filterId # 0 THEN lookup_or_add_filter(g, p.filterId, res.filter).g ELSE g

(* print_filter_rule2() looks the filter up unless the pointer `q` is      *)
(* NULL.                                                                   *)
print_filter_rule2(g, q, res) ==
  IF q.null THEN g ELSE lookup_or_add_filter(g, q.filterId, res.filter).g

(* The text of an address of the header, "-" when its flag is not set.     *)
AddrText(header, af, flag, addr) ==
  IF flag \in header.flags THEN inet_ntop(af, addr) ELSE "-"

(* print_addresses_ipv4() / print_addresses_ipv6(): TRUE when the          *)
(* addresses were printed.                                                 *)
print_addresses(g, header, version, af) ==
  IF header.ipVersion # version THEN FALSE
  ELSE IF \/ "IP_VERSION_SET" \notin header.flags
          \/ header.flags \cap {"LOCAL_ADDR_SET", "REMOTE_ADDR_SET"} = {}
    THEN FALSE
  ELSE IF /\ "LOCAL_ADDR_SET" \in header.flags
          /\ exclude_list_get(g.excl, AddrText(header, af, "LOCAL_ADDR_SET",
                                               header.localAddr), "EXCL_ADDRESS")
    THEN FALSE
  ELSE IF /\ "REMOTE_ADDR_SET" \in header.flags
          /\ exclude_list_get(g.excl, AddrText(header, af, "REMOTE_ADDR_SET",
                                               header.remoteAddr), "EXCL_ADDRESS")
    THEN FALSE
  ELSE TRUE

print_addresses_ipv4(g, header) == print_addresses(g, header, "FWP_IP_VERSION_V4", "AF_INET")
print_addresses_ipv6(g, header) == print_addresses(g, header, "FWP_IP_VERSION_V6", "AF_INET6")

(* print_app_id(): TRUE when the program does not exclude the event.       *)
(* With show_all == 0 that is when the program is fw_module itself.        *)
print_app_id(g, header) ==
  IF "APP_ID_SET" \notin header.flags \/ header.appId = NoPath THEN TRUE
  ELSE IF g_cfg.show_all = FALSE
    THEN \/ path_stricmp(fw_module, volume_to_path(header.appId)) = 0
         \/ path_stricmp(fw_module, basename(volume_to_path(header.appId))) = 0
  ELSE IF \/ exclude_list_get(g.excl, basename(volume_to_path(header.appId)),
                              "EXCL_PROGRAM")
          \/ exclude_list_get(g.excl, volume_to_path(header.appId), "EXCL_PROGRAM")
    THEN FALSE
  ELSE TRUE

(* The end of print_user_id(): FALSE for the logged-on user if show_user.  *)
user_shown(r) ==
  [g |-> r.g,
   ret |-> ~(g_cfg.show_user /\ stricmp(r.entry.account, fw_logged_on_user) = 0)]

(* print_user_id(): [g, ret].                                              *)
print_user_id(g, header, res) ==
  IF "USER_ID_SET" \notin header.flags \/ header.userId = NoSid
    THEN [g |-> g, ret |-> TRUE]
    ELSE user_shown(lookup_or_add_SID(g, header.userId, res.user))

(* The end of print_package_id(): FALSE for the NULL SID unless show_all.  *)
package_shown(r) ==
  [g |-> r.g, ret |-> g_cfg.show_all \/ r.entry.sid_str # NULL_SID]

(* print_package_id(): [g, ret].                                           *)
print_package_id(g, header, res) ==
  IF "PACKAGE_ID_SET" \notin header.flags \/ header.packageSid = NoSid
    THEN [g |-> g, ret |-> TRUE]
    ELSE package_shown(lookup_or_add_SID(g, header.packageSid, res.pkg))

(* The direction of a classify event: TRUE when direction_in.              *)
DirectionIn(p) ==
  LET direction_in  == p.msFwpDirection \in {FWP_DIRECTION_IN, FWP_DIRECTION_INBOUND}
      direction_out == ~direction_in /\
                       p.msFwpDirection \in {FWP_DIRECTION_OUT, FWP_DIRECTION_OUTBOUND}
  IN  direction_in \/ (~direction_in /\ ~direction_out)

(* The name of the parameter of fw_event_callback() that an event type    *)
(* reads its payload through.                                              *)
event_slot(event_type) ==
  CASE event_type = CLASSIFY_DROP    -> "drop_event1"
    [] event_type = CLASSIFY_ALLOW   -> "allow_event1"
    [] event_type = CAPABILITY_ALLOW -> "allow_event2"
    [] OTHER                         -> "drop_event2"

(* The fields the branch of an event type reads of its payload: the        *)
(* classify branches read msFwpDirection, then layerId and filterId in     *)
(* print_layer_item() and print_filter_rule(); the capability branches     *)
(* read networkCapabilityId, isLoopback and filterId in                    *)
(* print_layer_item2().                                                    *)
event_fields(event_type) ==
  IF event_type \in {CLASSIFY_DROP, CLASSIFY_ALLOW}
    THEN {"msFwpDirection", "layerId", "filterId"}
    ELSE {"networkCapabilityId", "isLoopback", "filterId"}

(* A read of fields through a payload pointer.                             *)
Read(g, slot, fields) ==
  [g EXCEPT !.reads = @ \cup { << slot, f >> : f \in fields }]

(* direction_in / direction_out after the branch of the event type.        *)
Direction(g, event_type, p) ==
  [g EXCEPT !.direction =
     IF event_type \in {CLASSIFY_DROP, CLASSIFY_ALLOW} /\ ~DirectionIn(p)
       THEN "out" ELSE "in"]

(* fw_event_callback(), the part of the event type: `q` is the pointer to  *)
(* the payload of that type and `p` what reading through it gives.  The    *)
(* first read through a NULL pointer is a fault.                           *)
event_rules(g, event_type, q, p, res) ==
  IF p.null
    THEN Fault(Read(g, event_slot(event_type),
                    IF event_type \in {CLASSIFY_DROP, CLASSIFY_ALLOW}
                      THEN {"msFwpDirection"} ELSE {"networkCapabilityId"}))
  ELSE IF event_type \in {CLASSIFY_DROP, CLASSIFY_ALLOW}
    THEN print_filter_rule(
           print_layer_item(
             Direction(Read(g, event_slot(event_type), event_fields(event_type)),
                       event_type, p), p), p, res)
    ELSE print_filter_rule2(
           print_layer_item2(
             Direction(Read(g, event_slot(event_type), event_fields(event_type)),
                       event_type, p), p, res), q, res)

(* A decision that flushes the event when its addresses were printed and   *)
(* drops it otherwise.  C8 does not hold of it.                            *)
event_decide_by_address(k, header, user_printed) ==
  IF /\ \/ print_addresses_ipv4(k.g, header)
        \/ print_addresses_ipv6(k.g, header)
     /\ user_printed
     /\ print_app_id(k.g, header)
    THEN Flush(k.g)
    ELSE Ignore(k.g)

(* fw_event_callback(), the decision: `k` is what print_package_id()       *)
(* gave.  "We filter on addresses, programs, logged-on user and packages". *)
event_decide(k, header, user_printed) ==
  LET program_printed == print_app_id(k.g, header)
      pkg_printed     == k.ret
      address_printed == /\ \/ print_addresses_ipv4(k.g, header)
                            \/ print_addresses_ipv6(k.g, header)
                         /\ user_printed
                         /\ program_printed
  IN  IF address_printed \/ program_printed \/ user_printed \/ pkg_printed
        THEN Flush(k.g)
        ELSE Ignore(k.g)

(* fw_event_callback(), the package (`u` is what print_user_id() gave).    *)
event_package(u, header, res) ==
  event_decide(print_package_id(u.g, header, res), header, u.ret)

(* fw_event_callback(), the user; nothing is left to do after a fault.     *)
event_user(g, header, res) ==
  IF g.fault THEN g ELSE event_package(print_user_id(g, header, res), header, res)

(* The payload pointer fw_event_callback() reads for an event type.        *)
event_member(event_type, drop_event1, drop_event2, allow_event1, allow_event2) ==
  CASE event_type = CLASSIFY_DROP    -> drop_event1
    [] event_type = CLASSIFY_ALLOW   -> allow_event1
    [] event_type = CAPABILITY_ALLOW -> allow_event2
    [] OTHER                         -> drop_event2

(* The payload pointers given to fw_event_callback() that are not NULL.    *)
Given(g, drop_event1, drop_event2, allow_event1, allow_event2) ==
  [g EXCEPT !.slots =
     (IF drop_event1.null THEN { } ELSE {"drop_event1"})
       \cup (IF drop_event2.null THEN { } ELSE {"drop_event2"})
       \cup (IF allow_event1.null THEN { } ELSE {"allow_event1"})
       \cup (IF allow_event2.null THEN { } ELSE {"allow_event2"})]

(* A print_reauth_reason() that is called for every event type.  C17      *)
(* does not hold of it.                                                    *)
print_reauth_reason_any_type(g, event_type, header) ==
  IF g.fault \/ "REAUTH_REASON_SET" \notin header.flags
    THEN g
    ELSE Read(g, IF "drop_event1" \in g.slots THEN "drop_event1" ELSE "allow_event1",
              {"reauthReason"})

(* print_reauth_reason(), called for the classify types: with the flag     *)
(* REAUTH_REASON_SET it reads reauthReason through drop_event1 or, when    *)
(* that is NULL, through allow_event1.  It writes to the buffer only, so   *)
(* it is applied to what the rest of the callback gave.                    *)
print_reauth_reason(g, event_type, header) ==
  IF \/ g.fault
     \/ event_type \notin {CLASSIFY_DROP, CLASSIFY_ALLOW}
     \/ "REAUTH_REASON_SET" \notin header.flags
    THEN g
    ELSE Read(g, IF "drop_event1" \in g.slots THEN "drop_event1" ELSE "allow_event1",
              {"reauthReason"})

(* A fw_event_callback() that decodes the events of every IP version.     *)
(* C12 does not hold of it.                                                *)
fw_event_callback_any_version(g, event_type, header, drop_event1, drop_event2, allow_event1, allow_event2, res, ub) ==
  IF event_type \notin Decoded
    THEN Given(g, drop_event1, drop_event2, allow_event1, allow_event2)
  ELSE print_reauth_reason(
         event_user(
           event_rules(Given(g, drop_event1, drop_event2, allow_event1, allow_event2),
             event_type,
             event_member(event_type, drop_event1, drop_event2, allow_event1, allow_event2),
             Deref(event_member(event_type, drop_event1, drop_event2,
                                allow_event1, allow_event2), ub),
             res),
           header, res),
         event_type, header)

(* fw_event_callback().                                                    *)
fw_event_callback(g, event_type, header, drop_event1, drop_event2, allow_event1, allow_event2, res, ub) ==
  IF /\ "IP_VERSION_SET" \in header.flags
     /\ \/ header.ipVersion = "FWP_IP_VERSION_V4" /\ ~g_cfg.show_ipv4
        \/ header.ipVersion = "FWP_IP_VERSION_V6" /\ ~g_cfg.show_ipv6
    THEN Ignore(Given(g, drop_event1, drop_event2, allow_event1, allow_event2))
  ELSE IF event_type \notin Decoded
    THEN Given(g, drop_event1, drop_event2, allow_event1, allow_event2)
  ELSE print_reauth_reason(
         event_user(
           event_rules(Given(g, drop_event1, drop_event2, allow_event1, allow_event2),
             event_type,
             event_member(event_type, drop_event1, drop_event2, allow_event1, allow_event2),
             Deref(event_member(event_type, drop_event1, drop_event2,
                                allow_event1, allow_event2), ub),
             res),
           header, res),
         event_type, header)

(* FW_EVENT_CALLBACK(): fw_event_callback0 .. fw_event_callback4.  The     *)
(* callbacks of the levels 0 and 1 know the classifyDrop member only.      *)
FW_EVENT_CALLBACK(g, level, event, res, ub) ==
  fw_event_callback(g, event.type, event.header,
    IF event.type = CLASSIFY_DROP THEN event.payload ELSE NullPayload,
    IF event.type = CAPABILITY_DROP /\ level >= 2 THEN event.payload ELSE NullPayload,
    IF event.type = CLASSIFY_ALLOW /\ level >= 2 THEN event.payload ELSE NullPayload,
    IF event.type = CAPABILITY_ALLOW /\ level >= 2 THEN event.payload ELSE NullPayload,
    res, ub)

-----------------------------------------------------------------------------
(* fw_exit() and fw_dump_events().                                         *)

unload_dynamic_table == { }

(* fw_exit(): the policy store, the session, the caches and the table.     *)
fw_exit(g) ==
  [ fw_monitor_stop(
      [ (IF Fn("FWClosePolicyStore") \in g.funcs /\
            g.fw_policy_handle # INVALID_HANDLE_VALUE
           THEN Call(g, "FWClosePolicyStore", 0, ERROR_SUCCESS) ELSE g)
        EXCEPT !.fw_policy_handle = INVALID_HANDLE_VALUE ],
      FALSE)
    EXCEPT !.fw_SID_list = << >>, !.fw_filter_list = << >>,
           !.fw_lists = FALSE, !.funcs = unload_dynamic_table ]

(* fw_check_ignore(): TRUE (and counted) for what is not a DROP event,     *)
(* unless show_all.                                                        *)
fw_check_ignore(type) ==
  ~(g_cfg.show_all \/ type \in {CLASSIFY_DROP, CAPABILITY_DROP})

(* The classifyDrop member of an entry of level N, read as a               *)
(* _FWPM_NET_EVENT_CLASSIFY_DROP2.  An entry of level 0 has a              *)
(* _FWPM_NET_EVENT_CLASSIFY_DROP0, which ends after filterId and layerId:  *)
(* what is read behind it is undefined, `ub` is what the read gives.       *)
classifyDrop(N, payload, ub) ==
  IF N = 0 /\ ~payload.null
    THEN [payload EXCEPT !.msFwpDirection = ub.msFwpDirection]
    ELSE payload

(* One round of the loop of DO_ENUM_LOOP(N): the entry `e` is an event     *)
(* with what the resolvers would answer for it.  The levels 0 and 1 know   *)
(* the classifyDrop member only.                                           *)
enum_entry(g, N, e) ==
  IF fw_check_ignore(e.event.type) THEN Ignore(g)
  ELSE IF e.event.type \notin Decoded THEN g
  ELSE fw_event_callback(g, e.event.type, e.event.header,
         IF e.event.type = CLASSIFY_DROP
           THEN classifyDrop(N, e.event.payload, e.ub) ELSE NullPayload,
         IF e.event.type = CAPABILITY_DROP /\ N >= 2 THEN e.event.payload ELSE NullPayload,
         IF e.event.type = CLASSIFY_ALLOW /\ N >= 2 THEN e.event.payload ELSE NullPayload,
         IF e.event.type = CAPABILITY_ALLOW /\ N >= 2 THEN e.event.payload ELSE NullPayload,
         e.res, e.ub)

(* DO_ENUM_LOOP(N): the entries from the i-th on.                          *)
RECURSIVE DO_ENUM_LOOP(_, _, _, _)
DO_ENUM_LOOP(g, N, entries, i) ==
  IF i > Len(entries) \/ g.fault THEN g
  ELSE DO_ENUM_LOOP(enum_entry(g, N, entries[i]), N, entries, i + 1)

(* GET_ENUM_ENTRIES(N) for N, N-1, .. 0: [g, rc, entries], `entries` TRUE  *)
(* when the engine gave a batch to free.                                   *)
RECURSIVE GET_ENUM_ENTRIES(_, _, _, _, _)
GET_ENUM_ENTRIES(g, N, api_level, rc, in) ==
  IF N < FW_API_LOW THEN [g |-> g, rc |-> rc, entries |-> FALSE]
  ELSE IF api_level = N /\ EnumFn(N) \in g.funcs
    THEN IF ~in.enum
           THEN [g |-> SetErrno(Call(g, "FwpmNetEventEnum", N, EngineError(N)),
                                EngineError(N)),
                 rc |-> EngineError(N), entries |-> FALSE]
           ELSE [g |-> DO_ENUM_LOOP(Call(g, "FwpmNetEventEnum", N, ERROR_SUCCESS),
                                    N, in.entries, 1),
                 rc |-> ERROR_SUCCESS, entries |-> TRUE]
  ELSE GET_ENUM_ENTRIES(g, N - 1, api_level, rc, in)

(* fw_dump_events() from `quit:` on; nothing is left to do after a fault.  *)
(* The enum handle is destroyed when fw_event_handle is valid.             *)
fw_dump_events_quit(e) ==
  LET q1 == SetErrno(e.g, e.rc)
      q2 == IF e.entries THEN Call(q1, "FwpmFreeMemory0", 0, ERROR_SUCCESS) ELSE q1
      q3 == IF e.g.fw_event_handle # INVALID_HANDLE_VALUE
              THEN Call(q2, "FwpmNetEventDestroyEnumHandle0", 0, ERROR_SUCCESS)
              ELSE q2
  IN  IF e.g.fault THEN e.g ELSE Return(q3, e.rc = ERROR_SUCCESS)

(* A fw_dump_events() that goes on when the engine could not be opened.    *)
(* C27 does not hold of it.                                                *)
fw_dump_events_enum_regardless(g1, in) ==
  fw_dump_events_quit(
    [g |-> Call([g1 EXCEPT !.fw_num_events = 0, !.fw_num_ignored = 0],
                "FwpmNetEventCreateEnumHandle0", 0, in.create),
     rc |-> in.create, entries |-> FALSE])

(* fw_dump_events() with the engine open: `g1` is what fw_create_engine()  *)
(* gave.                                                                   *)
fw_dump_events_enum(g1, in) ==
  IF ~g1.ret THEN Return(g1, FALSE)
  ELSE fw_dump_events_quit(
         IF in.create # ERROR_SUCCESS
           THEN [g |-> Call([g1 EXCEPT !.fw_num_events = 0, !.fw_num_ignored = 0],
                            "FwpmNetEventCreateEnumHandle0", 0, in.create),
                 rc |-> in.create, entries |-> FALSE]
           ELSE GET_ENUM_ENTRIES(
                  Call([g1 EXCEPT !.fw_num_events = 0, !.fw_num_ignored = 0],
                       "FwpmNetEventCreateEnumHandle0", 0, in.create),
                  FW_API_HIGH, fw_api, in.create, in))

fw_dump_events(g, in) ==
  IF fw_api < FW_API_LOW \/ fw_api > FW_API_HIGH
    THEN Return(SetErrno(g, ERROR_INVALID_DATA), FALSE)
  ELSE IF \/ Fn("FwpmNetEventCreateEnumHandle") \notin g.funcs
          \/ Fn("FwpmNetEventDestroyEnumHandle") \notin g.funcs
          \/ Fn("FwpmFreeMemory") \notin g.funcs
    THEN Return(SetErrno(g, FW_FUNC_ERROR), FALSE)
  ELSE fw_dump_events_enum(fw_create_engine(g, in.open), in)

(* enum FW_RULE_STATUS: the codes of the rules of the model.               *)
FW_RULE_STATUS(name) ==
  CASE name = "FW_RULE_STATUS_OK"                   -> 65536      \* 0x00010000
    [] name = "FW_RULE_STATUS_PARTIALLY_IGNORED"    -> 131072     \* 0x00020000
    [] name = "FW_RULE_STATUS_IGNORED"              -> 262144     \* 0x00040000
    [] name = "FW_RULE_STATUS_PARSING_ERROR"        -> 524288     \* 0x00080000
    [] name = "FW_RULE_STATUS_SEMANTIC_ERROR_PORTS" -> 1048608    \* 0x00100020
    [] name = "FW_RULE_STATUS_SEMANTIC_ERROR"       -> 1048576    \* 0x00100000
    [] name = "FW_RULE_STATUS_RUNTIME_ERROR"        -> 2097152    \* 0x00200000

(* enum FW_RULE_STATUS_CLASS: the class of a code is its high 16 bits      *)
(* (FW_RULE_STATUS_ALL is 0xFFFF0000).                                     *)
FW_RULE_STATUS_CLASS(name) ==
  (FW_RULE_STATUS(name) \div 65536) * 65536

(* The members of a FW_RULE that fw_dump_rule() prints, for a rule that    *)
(* has a name, a program and a context.                                    *)
RulePrinted ==
  {"Direction", "wszDescription", "wszName", "wszLocalApplication", "wszEmbeddedContext"}

(* A fw_dump_rule() that prints the rules with the status OK only.  C30    *)
(* does not hold of it.                                                    *)
fw_dump_rule_ok_only(g, rule) ==
  IF rule.Status # "FW_RULE_STATUS_OK" THEN g
  ELSE [g EXCEPT !.fw_num_rules = @ + 1, !.emitted = @ + 2,
                 !.reported = Append(@, [rule |-> rule, number |-> g.fw_num_rules + 1,
                                         printed |-> RulePrinted])]

(* fw_dump_rule(): the rule gets the next number and is printed, whatever  *)
(* its Status.  `printed` names the members of the FW_RULE the text is     *)
(* made of; the line that printed Status is commented out.                 *)
fw_dump_rule(g, rule) ==
  [g EXCEPT !.fw_num_rules = @ + 1, !.emitted = @ + 2,
            !.reported = Append(@, [rule |-> rule, number |-> g.fw_num_rules + 1,
                                    printed |-> RulePrinted])]

(* The loop of fw_enumerate_rules() over the list of the batch: it ends    *)
(* at the end of the list (`rule` is NULL) or after `rule_count` rules.    *)
RECURSIVE fw_enumerate_rules_loop(_, _, _, _)
fw_enumerate_rules_loop(g, rules, num, rule_count) ==
  IF num < Len(rules) /\ num < rule_count
    THEN fw_enumerate_rules_loop(fw_dump_rule(g, rules[num + 1]), rules, num + 1,
                                 rule_count)
    ELSE Return(g, num)

(* A fw_enumerate_rules() that asks the engine again when it refused.      *)
(* C29 does not hold of it.                                                *)
fw_enumerate_rules_retrying(g, in) ==
  IF Fn("FWEnumFirewallRules") \notin g.funcs THEN Fault(g)
  ELSE IF in.rc # ERROR_SUCCESS
    THEN Return(SetErrno(Call(Call(g, "FWEnumFirewallRules", 0, in.rc),
                              "FWEnumFirewallRules", 0, in.rc), in.rc), -1)
  ELSE fw_enumerate_rules_loop(Call(g, "FWEnumFirewallRules", 0, in.rc),
                               in.rules, 0, in.rule_count)

(* fw_enumerate_rules(): `in` is what FWEnumFirewallRules() answers: its   *)
(* code, the list of rules and the count.  The entry point is called       *)
(* without a test that it was loaded.                                      *)
fw_enumerate_rules(g, in) ==
  IF Fn("FWEnumFirewallRules") \notin g.funcs THEN Fault(g)
  ELSE IF in.rc # ERROR_SUCCESS
    THEN Return(SetErrno(Call(g, "FWEnumFirewallRules", 0, in.rc), in.rc), -1)
  ELSE LET g2 == fw_enumerate_rules_loop(Call(g, "FWEnumFirewallRules", 0, in.rc),
                                         in.rules, 0, in.rule_count)
       IN  IF Fn("FWFreeFirewallRules") \in g.funcs /\ in.rules # << >>
             THEN Call(g2, "FWFreeFirewallRules", 0, ERROR_SUCCESS) ELSE g2

(* A fw_enumerate_callouts() that frees the two caches when the engine     *)
(* refuses to make the enum handle.  C32 does not hold of it.              *)
fw_enumerate_callouts_clearing(g, in) ==
  IF \/ Fn("FwpmCalloutCreateEnumHandle") \notin g.funcs
     \/ Fn("FwpmCalloutDestroyEnumHandle") \notin g.funcs
     \/ Fn("FwpmCalloutEnum") \notin g.funcs
     \/ Fn("FwpmFreeMemory") \notin g.funcs
    THEN Return(g, FALSE)
  ELSE LET g1 == fw_create_engine(g, in.open)
           g2 == Call(g1, "FwpmCalloutCreateEnumHandle0", 0, in.create)
           g3 == Call(g2, "FwpmCalloutEnum0", 0,
                      IF in.enum THEN ERROR_SUCCESS ELSE "FWP_E_CALLOUT_NOT_FOUND")
       IN  IF ~g1.ret THEN Return(g1, FALSE)
           ELSE IF in.create # ERROR_SUCCESS
             THEN Return([SetErrno(g2, in.create) EXCEPT !.fw_filter_list = << >>,
                                                         !.fw_SID_list = << >>], FALSE)
           ELSE IF ~in.enum
             THEN Return(Call(SetErrno(g3, "FWP_E_CALLOUT_NOT_FOUND"),
                              "FwpmCalloutDestroyEnumHandle0", 0, ERROR_SUCCESS), FALSE)
           ELSE Return(Call(Call(SetErrno(g3, ERROR_SUCCESS),
                                 "FwpmFreeMemory0", 0, ERROR_SUCCESS),
                            "FwpmCalloutDestroyEnumHandle0", 0, ERROR_SUCCESS), TRUE)

(* fw_enumerate_callouts(): `in.enum` is whether FwpmCalloutEnum0()        *)
(* succeeds.  When an entry point is missing only the local `rc` is set:   *)
(* fw_errno stays.  The callouts printed are not modelled.                 *)
fw_enumerate_callouts(g, in) ==
  IF \/ Fn("FwpmCalloutCreateEnumHandle") \notin g.funcs
     \/ Fn("FwpmCalloutDestroyEnumHandle") \notin g.funcs
     \/ Fn("FwpmCalloutEnum") \notin g.funcs
     \/ Fn("FwpmFreeMemory") \notin g.funcs
    THEN Return(g, FALSE)
  ELSE LET g1 == fw_create_engine(g, in.open)
           g2 == Call(g1, "FwpmCalloutCreateEnumHandle0", 0, in.create)
           g3 == Call(g2, "FwpmCalloutEnum0", 0,
                      IF in.enum THEN ERROR_SUCCESS ELSE "FWP_E_CALLOUT_NOT_FOUND")
       IN  IF ~g1.ret THEN Return(g1, FALSE)
           ELSE IF in.create # ERROR_SUCCESS
             THEN Return(SetErrno(g2, in.create), FALSE)
           ELSE IF ~in.enum
             THEN Return(Call(SetErrno(g3, "FWP_E_CALLOUT_NOT_FOUND"),
                              "FwpmCalloutDestroyEnumHandle0", 0, ERROR_SUCCESS), FALSE)
           ELSE Return(Call(Call(SetErrno(g3, ERROR_SUCCESS),
                                 "FwpmFreeMemory0", 0, ERROR_SUCCESS),
                            "FwpmCalloutDestroyEnumHandle0", 0, ERROR_SUCCESS), TRUE)

-----------------------------------------------------------------------------
(* Bounds of the model.                                                    *)

MaxSubs   == 2     \* live subscriptions on the engine
MaxEvents == 2     \* events counted (emitted or ignored) since the last start
MaxBatch  == 1     \* entries of a batch of fw_dump_events()
MaxThreads == 2    \* threads of the engine that run callbacks
MaxRules  == 2     \* rules of a batch of fw_enumerate_rules()

-----------------------------------------------------------------------------
(* The operations.  Every action is one call of a function of the module   *)
(* (or of a callback, by the engine), from entry to return.  A fault ends  *)
(* the process.  `last` keeps the operation: its name, what it returned,   *)
(* the events it flushed, its inputs and what it found.                    *)

Alive == ~last.fault

Config == UNCHANGED << g_cfg, env, fw_api >>

(* A thread of the engine that runs no callback.                           *)
IdleThread ==
  [ pc |-> "idle", kind |-> "none", filter |-> 0, sid |-> NoSid, misuse |-> "none",
    seen |-> 0 ]

Commit(g, op, in, pre) ==
  /\ Store(g)
  /\ last' = [op |-> op, ret |-> g.ret, fault |-> g.fault, emitted |-> g.emitted,
              direction |-> g.direction, slots |-> g.slots, reads |-> g.reads,
              reported |-> g.reported,
              in |-> in, pre |-> pre]
  /\ Config
  /\ UNCHANGED inflight

(* What the operation found: the subscription handle, the counters and     *)
(* the caches.                                                             *)
Pre ==
  [ fw_event_handle |-> fw_event_handle,
    fw_num_events   |-> fw_num_events,
    fw_num_ignored  |-> fw_num_ignored,
    fw_filter_list  |-> fw_filter_list,
    fw_SID_list     |-> fw_SID_list ]

FwInit ==
  /\ Alive /\ ~fw_lists
  /\ \E rc \in {ERROR_SUCCESS, "FW_E_POLICY_STORE"} :
       Commit(fw_init(Globals, rc), "fw_init", rc, Pre)

FwExit ==
  /\ Alive /\ fw_lists
  /\ Commit(fw_exit(Globals), "fw_exit", 0, Pre)

(* What the engine answers during fw_monitor_start(): to                   *)
(* FwpmEngineOpen0(), to the FwpmEngineSetOption0() calls (`opt`: the one  *)
(* it refuses, 0 for none) and to FwpmNetEventSubscribeN() of each level   *)
(* (`sub`): an engine accepts the subscriptions of the levels up to the    *)
(* newest it knows, which may be none.  When the engine refuses to open    *)
(* or to set an option, no subscribe call is reached and one `sub` stands  *)
(* for all.                                                                *)
AcceptsUpTo(newest) == [N \in Levels |-> N <= newest]

Accepting == AcceptsUpTo(FW_API_HIGH)

StartInputs ==
  [ open : {ERROR_SUCCESS}, opt : {0},
    sub  : { AcceptsUpTo(newest) : newest \in (FW_API_LOW - 1) .. FW_API_HIGH } ]
  \cup [ open : {"FWP_E_OPEN"}, opt : {0}, sub : {Accepting} ]
  \cup [ open : {ERROR_SUCCESS}, opt : 1 .. 3, sub : {Accepting} ]

FwMonitorStart(Inputs) ==
  /\ Alive /\ Len(subscriptions) < MaxSubs
  /\ \E in \in Inputs :
       Commit(fw_monitor_start(Globals, in), "fw_monitor_start", in, Pre)

FwMonitorStop ==
  /\ Alive
  /\ \E force \in BOOLEAN :
       Commit(fw_monitor_stop(Globals, force), "fw_monitor_stop", force, Pre)

(* The engine calls the callback of a live subscription with an event.     *)
FwEvent(Deliveries) ==
  /\ Alive /\ subscriptions # << >>
  /\ fw_num_events + fw_num_ignored < MaxEvents
  /\ \E i \in 1 .. Len(subscriptions), d \in Deliveries :
       Commit(FW_EVENT_CALLBACK(Globals, subscriptions[i], d.event, d.res, d.ub),
              "fw_event_callback",
              [level |-> subscriptions[i], event |-> d.event, res |-> d.res],
              Pre)

(* What the engine answers during fw_dump_events(): to FwpmEngineOpen0(),  *)
(* to FwpmNetEventCreateEnumHandle0() and to FwpmNetEventEnumN() (`enum`). *)
(* It refuses one of them at most.                                         *)
DumpAnswers ==
  { [open |-> ERROR_SUCCESS, create |-> ERROR_SUCCESS, enum |-> TRUE],
    [open |-> "FWP_E_OPEN",  create |-> ERROR_SUCCESS, enum |-> TRUE],
    [open |-> ERROR_SUCCESS, create |-> "FWP_E_ENUM_HANDLE", enum |-> TRUE],
    [open |-> ERROR_SUCCESS, create |-> ERROR_SUCCESS, enum |-> FALSE] }

(* fw_dump_events(): what the engine answers and the batch it gives.       *)
FwDumpEvents(Deliveries) ==
  /\ Alive
  /\ \E a \in DumpAnswers,
        entries \in UNION { [1 .. k -> Deliveries] : k \in 0 .. MaxBatch } :
       Commit(fw_dump_events(Globals, [open |-> a.open, create |-> a.create,
                                       enum |-> a.enum, entries |-> entries]),
              "fw_dump_events",
              [open |-> a.open, create |-> a.create, enum |-> a.enum,
               entries |-> entries],
              Pre)

-----------------------------------------------------------------------------
(* fw_enumerate_callouts(): what the engine answers to FwpmEngineOpen0(),  *)
(* FwpmCalloutCreateEnumHandle0() and FwpmCalloutEnum0().                  *)
FwEnumerateCallouts ==
  /\ Alive
  /\ \E a \in DumpAnswers :
       Commit(fw_enumerate_callouts(Globals, a), "fw_enumerate_callouts", a, Pre)

(* fw_enumerate_rules(): the engine refuses, or gives a list of rules of   *)
(* any status out of `Statuses` and a count that is the length of the list *)
(* or more.                                                                *)
FwEnumerateRules(Statuses) ==
  /\ Alive /\ fw_num_rules <= MaxRules
  /\ \E k \in 0 .. MaxRules, extra \in 0 .. 1, rc \in {ERROR_SUCCESS, "FW_E_RULES"} :
       \E status \in [1 .. k -> Statuses] :
         Commit(fw_enumerate_rules(Globals,
                  [rc |-> rc, rule_count |-> IF rc = ERROR_SUCCESS THEN k + extra ELSE 0,
                   rules |-> IF rc = ERROR_SUCCESS
                               THEN [i \in 1 .. k |-> [id |-> i, Status |-> status[i]]]
                               ELSE << >>]),
                "fw_enumerate_rules",
                [rc |-> rc, rule_count |-> IF rc = ERROR_SUCCESS THEN k + extra ELSE 0,
                 rules |-> IF rc = ERROR_SUCCESS
                             THEN [i \in 1 .. k |-> [id |-> i, Status |-> status[i]]]
                             ELSE << >>],
                Pre)

-----------------------------------------------------------------------------
(* The state of the process when it starts, for a configuration out of     *)
(* `cfgs`, exclusion lists out of `excls`, an environment out of `envs`    *)
(* and an API level out of `apis`.                                         *)

StaticInit(cfgs, excls, envs, apis) ==
  /\ g_cfg \in cfgs
  /\ excl \in excls
  /\ env \in envs
  /\ fw_api \in apis
  /\ funcs = { }
  /\ fw_policy_handle = INVALID_HANDLE_VALUE
  /\ fw_engine_handle = INVALID_HANDLE_VALUE
  /\ fw_event_handle = INVALID_HANDLE_VALUE
  /\ fw_errno = ERROR_SUCCESS
  /\ fw_num_events = 0
  /\ fw_num_ignored = 0
  /\ fw_num_rules = 0
  /\ fw_filter_list = << >>
  /\ fw_SID_list = << >>
  /\ fw_lists = FALSE
  /\ resolved = [filter |-> << >>, sid |-> << >>]
  /\ subscriptions = << >>
  /\ calls = << >>
  /\ inflight = [t \in 1 .. MaxThreads |-> IdleThread]
  /\ last = [op |-> "none", ret |-> TRUE, fault |-> FALSE, emitted |-> 0,
             direction |-> "unknown", slots |-> { }, reads |-> { },
             reported |-> << >>,
             in |-> 0, pre |-> 0]

Header(flags, ipVersion, localAddr, remoteAddr, appId, userId, packageSid) ==
  [ flags |-> flags, ipVersion |-> ipVersion, localAddr |-> localAddr,
    remoteAddr |-> remoteAddr, appId |-> appId, userId |-> userId,
    packageSid |-> packageSid ]

Payload(msFwpDirection, filterId, layerId) ==
  [ null |-> FALSE, msFwpDirection |-> msFwpDirection, filterId |-> filterId,
    layerId |-> layerId ]

Sid(obj, bytes) == [obj |-> obj, bytes |-> bytes]

Mapped(account, domain) == [kind |-> "mapped", account |-> account, domain |-> domain]
NoneMapped              == [kind |-> "none_mapped", account |-> "", domain |-> ""]
LookupFailed            == [kind |-> "failed", account |-> "", domain |-> ""]

FilterFound(name) == [ok |-> TRUE, name |-> name]
FilterNotFound    == [ok |-> FALSE, name |-> ""]

DefaultCfg == [show_all |-> FALSE, show_ipv4 |-> TRUE, show_ipv6 |-> TRUE,
               show_user |-> FALSE]
NoExcl     == [program |-> { }, address |-> { }]

(* An environment: a process that did not inherit the semaphore, a build   *)
(* whose layouts agree, and the entry points the DLLs export.              *)
Environment(exports) ==
  [ws_sema_inherited |-> FALSE, sizes_ok |-> TRUE, exports |-> exports,
   unsubscribe_waits |-> FALSE]

-----------------------------------------------------------------------------
(* Spec: the session.  Every set of subscribe entry points the installed   *)
(* engine may export, every API level the user may ask for (legal or       *)
(* not), and the operations of the session in any order.  The engine has   *)
(* no events in this session: a batch of fw_dump_events() is empty.        *)

SessionEnvs ==
  { Environment(fw_funcs \ { SubscribeFn(N) : N \in missing }) :
      missing \in SUBSET Levels }
  \cup { Environment(fw_funcs \ { Fn("FwpmEngineOpen") }),
         Environment(fw_funcs \ { EnumFn(FW_API_DEFAULT) }) }

NoDeliveries == { }

Init ==
  StaticInit({DefaultCfg}, {NoExcl}, SessionEnvs, (FW_API_LOW - 1) .. (FW_API_HIGH + 1))

Next ==
  \/ FwInit
  \/ FwMonitorStart(StartInputs)
  \/ FwMonitorStop
  \/ FwDumpEvents(NoDeliveries)
  \/ FwEnumerateCallouts
  \/ FwExit

Spec == Init /\ [][Next]_vars

-----------------------------------------------------------------------------
(* SpecCache: the caches.  One engine that exports everything and accepts  *)
(* the subscription at the default level; the events differ in the filter  *)
(* and in the SIDs of the user and the package, and the resolvers may      *)
(* answer differently each time they are asked.                            *)

StartsFine == { [open |-> ERROR_SUCCESS, opt |-> 0, sub |-> Accepting] }

BaseFlags == {"IP_VERSION_SET", "LOCAL_ADDR_SET", "REMOTE_ADDR_SET"}

(* The flags of a header: a field has its flag when it is there.           *)
FlagsOf(appId, userId, packageSid) ==
  BaseFlags \cup (IF appId = NoPath THEN {} ELSE {"APP_ID_SET"})
            \cup (IF userId = NoSid THEN {} ELSE {"USER_ID_SET"})
            \cup (IF packageSid = NoSid THEN {} ELSE {"PACKAGE_ID_SET"})

Event(type, ipVersion, localAddr, remoteAddr, appId, userId, packageSid, filterId) ==
  [ type    |-> type,
    header  |-> Header(FlagsOf(appId, userId, packageSid), ipVersion, localAddr,
                       remoteAddr, appId, userId, packageSid),
    payload |-> Payload(FWP_DIRECTION_IN, filterId, 0) ]

CacheEvents ==
  { Event(type, "FWP_IP_VERSION_V4", 1, 1, NoPath, NoSid, NoSid, filterId) :
      type \in {CLASSIFY_DROP, CAPABILITY_DROP}, filterId \in 1 .. 2 }
  \cup
  { Event(CAPABILITY_DROP, "FWP_IP_VERSION_V4", 1, 1, NoPath, NoSid, NoSid, 0) }
  \cup
  { Event(CLASSIFY_DROP, "FWP_IP_VERSION_V4", 1, 1, NoPath, ids[1], ids[2], 0) :
      ids \in { <<NoSid, NoSid>>, <<Sid(1, 3), NoSid>>, <<NoSid, Sid(2, 3)>>,
                <<Sid(1, 3), Sid(2, 4)>>, <<Sid(1, 3), Sid(2, 3)>> } }

CacheAnswers ==
  { [filter |-> FilterFound("Block"), user |-> Mapped("bob", "PC"),
     pkg |-> Mapped("app", "PC")],
    [filter |-> FilterNotFound, user |-> NoneMapped, pkg |-> NoneMapped],
    [filter |-> FilterNotFound, user |-> LookupFailed, pkg |-> LookupFailed] }

CacheDeliveries ==
  { [event |-> e, res |-> r, ub |-> NullPayload] : e \in CacheEvents, r \in CacheAnswers }

InitCache ==
  StaticInit({DefaultCfg}, {NoExcl}, {Environment(fw_funcs)}, {FW_API_DEFAULT})

(* The monitor is started when it is not running.                          *)
NextCache ==
  \/ FwInit
  \/ subscriptions = << >> /\ FwMonitorStart(StartsFine)
  \/ FwMonitorStop
  \/ FwEvent(CacheDeliveries)
  \/ FwExit

SpecCache == InitCache /\ [][NextCache]_vars

-----------------------------------------------------------------------------
(* SpecVis: the visibility filter.  Every configuration of the four        *)
(* options; exclusion lists with a program and an address of each family;  *)
(* IPv4 events of every program, user, package and address case, IPv6     *)
(* events of every address case with and without an excluded program and   *)
(* a user.  Here the resolver maps a SID to the same account every time.   *)

Configs == [show_all : BOOLEAN, show_ipv4 : BOOLEAN, show_ipv6 : BOOLEAN,
            show_user : BOOLEAN]

evil_exe == [dir |-> "c:\\tools\\", base |-> "evil.exe"]
curl_exe == [dir |-> "c:\\tools\\", base |-> "curl.exe"]
own_exe  == [dir |-> "\\Device\\HarddiskVolume2\\bin\\", base |-> "FW_TEST.EXE"]

VisExcl == [program |-> { basename(evil_exe) }, address |-> {"8.8.8.8", "2001:db8::2"}]

(* The accounts of the SIDs of SpecVis.                                    *)
Account(sid) ==
  CASE sid.bytes = 2 -> Mapped("Alice", "PC")
    [] sid.bytes = 3 -> Mapped("bob", "PC")
    [] OTHER         -> NoneMapped

VisEvents ==
  { Event(CLASSIFY_DROP, "FWP_IP_VERSION_V4", addr[1], addr[2], appId, userId, packageSid, 0) :
      addr \in {<<1, 1>>, <<1, 2>>, <<2, 1>>},
      appId \in {NoPath, own_exe, evil_exe, curl_exe},
      userId \in {NoSid, Sid(1, 2), Sid(1, 3)},
      packageSid \in {NoSid, Sid(2, 1), Sid(2, 4)} }
  \cup
  { Event(CLASSIFY_DROP, "FWP_IP_VERSION_V6", addr[1], addr[2], appId, userId, NoSid, 0) :
      addr \in {<<1, 1>>, <<1, 2>>, <<2, 1>>},
      appId \in {NoPath, evil_exe},
      userId \in {NoSid, Sid(1, 2)} }
  \cup
  { Event(type, "FWP_IP_VERSION_V4", 1, 1, NoPath, NoSid, NoSid, 0) :
      type \in {CLASSIFY_ALLOW, CAPABILITY_DROP, CAPABILITY_ALLOW, IKEEXT_MM_FAILURE} }

VisDeliveries ==
  { [event |-> e,
     res   |-> [filter |-> FilterNotFound, user |-> Account(e.header.userId),
                pkg |-> Account(e.header.packageSid)],
     ub    |-> NullPayload] : e \in VisEvents }

InitVis ==
  StaticInit(Configs, {VisExcl}, {Environment(fw_funcs)}, {FW_API_DEFAULT})

(* The monitor is started once.                                            *)
NextVis ==
  \/ FwInit
  \/ subscriptions = << >> /\ FwMonitorStart(StartsFine)
  \/ FwEvent(VisDeliveries)

SpecVis == InitVis /\ [][NextVis]_vars

-----------------------------------------------------------------------------
(* SpecDecode: the decoding of an event at every API level.  Events of     *)
(* every type with every direction code, delivered by the engine to the    *)
(* callback of the level subscribed and enumerated by fw_dump_events();    *)
(* a monitor that is stopped and started again, with an engine that may    *)
(* refuse to open.                                                         *)

(* FWP_DIRECTION_OUTBOUND (0), FWP_DIRECTION_INBOUND (1), a code that is   *)
(* none of them (2) and the codes FWP_DIRECTION_IN, _OUT and _FORWARD.     *)
DirectionCodes ==
  { FWP_DIRECTION_OUTBOUND, FWP_DIRECTION_INBOUND, 2,
    FWP_DIRECTION_IN, FWP_DIRECTION_OUT, FWP_DIRECTION_FORWARD }

DecodeEvents ==
  { [Event(td[1], "FWP_IP_VERSION_V4", 1, 1, NoPath, NoSid, NoSid, 0)
       EXCEPT !.payload.msFwpDirection = td[2],
              !.header.flags = @ \cup {"REAUTH_REASON_SET"}] :
      td \in ({CLASSIFY_DROP} \X DirectionCodes)
               \cup ({CLASSIFY_ALLOW} \X {FWP_DIRECTION_OUT, FWP_DIRECTION_FORWARD}) }
  \cup
  { [Event(CLASSIFY_DROP, "FWP_IP_VERSION_V4", 1, 1, NoPath, Sid(1, 3), NoSid, 0)
       EXCEPT !.payload.msFwpDirection = d] : d \in {0, 2} }
  \cup
  { [Event(type, "FWP_IP_VERSION_V4", 1, 1, NoPath, NoSid, NoSid, 0)
       EXCEPT !.header.flags = @ \cup {"REAUTH_REASON_SET"}] :
      type \in {CAPABILITY_DROP, CAPABILITY_ALLOW, IKEEXT_MM_FAILURE} }

(* An undefined read faults or gives what the memory holds.                *)
DecodeDeliveries ==
  { [event |-> e,
     res   |-> [filter |-> FilterNotFound, user |-> Account(e.header.userId),
                pkg |-> Account(e.header.packageSid)],
     ub    |-> ub] :
      e \in DecodeEvents, ub \in {NullPayload, Payload(FWP_DIRECTION_OUT, 0, 0)} }

(* The entries the engine has kept for fw_dump_events().                   *)
DumpDeliveries ==
  { d \in DecodeDeliveries :
      /\ d.event.header.userId = NoSid
      /\ \/ /\ d.event.type = CLASSIFY_DROP
            /\ d.event.payload.msFwpDirection = FWP_DIRECTION_IN
         \/ d.event.type = CAPABILITY_DROP /\ d.ub.null }

StartsOrFails ==
  StartsFine \cup { [open |-> "FWP_E_OPEN", opt |-> 0, sub |-> Accepting] }

InitDecode ==
  StaticInit({ [DefaultCfg EXCEPT !.show_user = b] : b \in BOOLEAN },
             {NoExcl}, {Environment(fw_funcs)}, Levels)

NextDecode ==
  \/ FwInit
  \/ subscriptions = << >> /\ FwMonitorStart(StartsOrFails)
  \/ FwMonitorStop
  \/ FwEvent(DecodeDeliveries)
  \/ FwDumpEvents(DumpDeliveries)

SpecDecode == InitDecode /\ [][NextDecode]_vars

-----------------------------------------------------------------------------
(* SpecRules: the rules of the policy store.  The session of SpecCache     *)
(* with fw_enumerate_rules() among its operations: the caches have entries *)
(* when the rules are listed.                                              *)

RuleStatuses ==
  {"FW_RULE_STATUS_OK", "FW_RULE_STATUS_IGNORED", "FW_RULE_STATUS_SEMANTIC_ERROR_PORTS"}

MappedDrops ==
  { d \in CacheDeliveries :
      d.event.type = CLASSIFY_DROP /\ d.res.filter.ok /\ d.res.user.kind = "mapped" }

NextRules ==
  \/ FwInit
  \/ subscriptions = << >> /\ FwMonitorStart(StartsFine)
  \/ FwEvent(MappedDrops)
  \/ FwEnumerateRules(RuleStatuses)
  \/ FwExit

SpecRules == InitCache /\ [][NextRules]_vars

-----------------------------------------------------------------------------
(* SpecFail: the operations that can fail.  The session of SpecCache with  *)
(* every operation of the program and every answer of the engine: each     *)
(* operation can fail when the caches have entries, and any other can be   *)
(* called after it.  The process does not call fw_exit().                  *)

(* Two events: one with a filter, one with a user.                         *)
FailDrops ==
  { d \in MappedDrops :
      \/ d.event.payload.filterId = 1
      \/ d.event.header.userId # NoSid /\ d.event.header.packageSid = NoSid }

NextFail ==
  \/ FwInit
  \/ subscriptions = << >> /\ FwMonitorStart(StartInputs)
  \/ FwMonitorStop
  \/ FwEvent(FailDrops)
  \/ FwDumpEvents(NoDeliveries)
  \/ FwEnumerateCallouts
  \/ FwEnumerateRules({"FW_RULE_STATUS_OK"})

SpecFail == InitCache /\ [][NextFail]_vars

-----------------------------------------------------------------------------
(* SpecConc: the threads of the engine.  FW_EVENT_CALLBACK() takes no      *)
(* lock (ENTER_CRIT() and ws_sema_wait() are commented out), so the        *)
(* callbacks of the engine's threads run side by side and next to the      *)
(* operations of the session.  A callback is followed through the lookup   *)
(* it makes in one cache: the search of the list, the question to the      *)
(* engine or to the system, the smartlist_add(), the return.  Whether      *)
(* FwpmNetEventUnsubscribe0() returns only when no callback runs is the    *)
(* engine's matter (`env.unsubscribe_waits`): the module does not wait.    *)

(* A step of thread `t`: the globals it leaves and where it goes.          *)
CbStep(t, g, thread, fault) ==
  /\ Store(g)
  /\ Config
  /\ last' = [last EXCEPT !.fault = fault]
  /\ inflight' = [inflight EXCEPT ![t] = thread]

(* The engine calls the callback on thread `t` with an event that has a    *)
(* filter id or a user SID.                                                *)
CbEnter(t) ==
  /\ Alive /\ subscriptions # << >>
  /\ inflight[t].pc = "idle"
  /\ Cardinality({ u \in 1 .. MaxThreads : inflight[u].pc # "idle" })
       + fw_num_events + fw_num_ignored < MaxEvents
  /\ \E w \in { [kind |-> "filter", filter |-> 7, sid |-> NoSid],
                [kind |-> "SID", filter |-> 0, sid |-> Sid(1, 3)] } :
       CbStep(t, Globals, [pc |-> "search", kind |-> w.kind, filter |-> w.filter,
                           sid |-> w.sid, misuse |-> "none", seen |-> 0], FALSE)

(* The loop over the list in lookup_or_add_filter() / lookup_or_add_SID(). *)
(* After fw_exit() the list is freed and its pointer NULL: the read is     *)
(* undefined, it faults or finds nothing.                                  *)
CbSearch(t) ==
  /\ Alive /\ inflight[t].pc = "search"
  /\ IF ~fw_lists
       THEN \E fault \in BOOLEAN :
              CbStep(t, Globals, [inflight[t] EXCEPT !.pc = "resolve",
                                                     !.misuse = "freed cache"], fault)
     ELSE IF \/ /\ inflight[t].kind = "filter"
                /\ \E k \in 1 .. Len(fw_filter_list) :
                     inflight[t].filter = fw_filter_list[k].value
             \/ /\ inflight[t].kind = "SID"
                /\ \E k \in 1 .. Len(fw_SID_list) :
                     EqualSid(inflight[t].sid, fw_SID_list[k].sid_copy)
       THEN CbStep(t, Globals, [inflight[t] EXCEPT !.pc = "return"], FALSE)
     ELSE CbStep(t, Globals, [inflight[t] EXCEPT !.pc = "resolve"], FALSE)

(* The miss: FwpmFilterGetById0 (fw_engine_handle, ...) through the entry  *)
(* point p_FwpmFilterGetById0, which fw_exit() unloads, or                 *)
(* LookupAccountSid().                                                     *)
CbResolve(t) ==
  /\ Alive /\ inflight[t].pc = "resolve"
  /\ IF inflight[t].kind = "filter" /\ Fn("FwpmFilterGetById") \notin funcs
       THEN CbStep(t, Globals, [inflight[t] EXCEPT !.pc = "add",
                                                   !.misuse = "unloaded entry point"], TRUE)
     ELSE IF inflight[t].kind = "filter"
       THEN CbStep(t, [Call(Globals, "FwpmFilterGetById0", inflight[t].filter,
                            IF fw_engine_handle = INVALID_HANDLE_VALUE
                              THEN "FWP_E_INVALID_HANDLE" ELSE ERROR_SUCCESS)
                         EXCEPT !.resolved.filter =
                                  Append(@, [key |-> inflight[t].filter,
                                             ok |-> fw_engine_handle # INVALID_HANDLE_VALUE])],
                   [inflight[t] EXCEPT !.pc = "add",
                                       !.misuse = IF fw_engine_handle = INVALID_HANDLE_VALUE
                                                    THEN "closed engine handle" ELSE @],
                   FALSE)
     ELSE CbStep(t, [Call(Globals, "LookupAccountSid", inflight[t].sid.bytes, "mapped")
                       EXCEPT !.resolved.sid =
                                Append(@, [key |-> inflight[t].sid.bytes, kind |-> "mapped"])],
                 [inflight[t] EXCEPT !.pc = "add"], FALSE)

(* smartlist_add (list, entry) of the miss.                                *)
CbAdd(t) ==
  /\ Alive /\ inflight[t].pc = "add"
  /\ IF ~fw_lists
       THEN \E fault \in BOOLEAN :
              CbStep(t, Globals, [inflight[t] EXCEPT !.pc = "return",
                                                     !.misuse = "freed cache"], fault)
     ELSE IF inflight[t].kind = "filter"
       THEN CbStep(t, [Globals EXCEPT !.fw_filter_list =
                         smartlist_add(@, filter_entry(inflight[t].filter,
                           IF inflight[t].misuse = "none"
                             THEN FilterFound("Block") ELSE FilterNotFound))],
                   [inflight[t] EXCEPT !.pc = "return"], FALSE)
     ELSE CbStep(t, [Globals EXCEPT !.fw_SID_list =
                       smartlist_add(@, SID_entry(inflight[t].sid,
                         lookup_account_SID(inflight[t].sid,
                                            ConvertSidToStringSid(inflight[t].sid),
                                            Mapped("bob", "HOME"))))],
                 [inflight[t] EXCEPT !.pc = "return"], FALSE)

(* `fw_num_events++` is a load and a store: the load.                      *)
CbLoad(t) ==
  /\ Alive /\ inflight[t].pc = "return"
  /\ fw_num_events < MaxEvents
  /\ CbStep(t, Globals, [inflight[t] EXCEPT !.pc = "count", !.seen = fw_num_events],
            FALSE)

(* The store of `fw_num_events++`, and the return of the callback.         *)
CbReturn(t) ==
  /\ Alive /\ inflight[t].pc = "count"
  /\ CbStep(t, [Globals EXCEPT !.fw_num_events = inflight[t].seen + 1,
                               !.emitted = @ + 1],
            IdleThread, FALSE)

(* What the engine lets fw_monitor_stop() and fw_exit() wait for: an       *)
(* engine whose FwpmNetEventUnsubscribe0() waits returns when no callback  *)
(* of the subscription runs.                                               *)
Quiescent ==
  (env.unsubscribe_waits /\ subscriptions # << >>)
    => \A t \in 1 .. MaxThreads : inflight[t].pc = "idle"

InitConc ==
  StaticInit({DefaultCfg}, {NoExcl},
             { [Environment(fw_funcs) EXCEPT !.unsubscribe_waits = w] : w \in BOOLEAN },
             {FW_API_DEFAULT})

NextConc ==
  \/ FwInit
  \/ subscriptions = << >> /\ FwMonitorStart(StartsFine)
  \/ /\ Alive /\ Quiescent
     /\ Commit(fw_monitor_stop(Globals, FALSE), "fw_monitor_stop", FALSE, Pre)
  \/ Quiescent /\ FwExit
  \/ \E t \in 1 .. MaxThreads : CbEnter(t)
  \/ \E t \in 1 .. MaxThreads : CbSearch(t)
  \/ \E t \in 1 .. MaxThreads : CbResolve(t)
  \/ \E t \in 1 .. MaxThreads : CbAdd(t)
  \/ \E t \in 1 .. MaxThreads : CbLoad(t)
  \/ \E t \in 1 .. MaxThreads : CbReturn(t)

SpecConc == InitConc /\ [][NextConc]_vars

-----------------------------------------------------------------------------
(* The negotiation of the API level (Spec).                                *)

IsSubscribe(c) == c.fn = "FwpmNetEventSubscribe"

(* The subscribe calls of the last operation, in the order they were made. *)
SubscribeCalls == SelectSeq(calls, IsSubscribe)

(* The last operation was fw_monitor_start() and it came to                *)
(* fw_monitor_subscribe(): the engine took the last of the three options.  *)
Subscribing ==
  /\ last.op = "fw_monitor_start"
  /\ \E i \in 1 .. Len(calls) :
       calls[i] = [fn |-> "FwpmEngineSetOption0", arg |-> 3, rc |-> ERROR_SUCCESS]

Exported(N) == SubscribeFn(N) \in funcs

Highest(S) == CHOOSE m \in S : \A n \in S : n <= m

(* C1: the negotiation retries downwards.  With every level exported, a    *)
(* subscribe call that returns an error at a level above 0 is followed by  *)
(* a subscribe call at the next lower level, and fw_monitor_subscribe()    *)
(* returns TRUE exactly when a subscribe call returned success.            *)
C1_DescendingRetry ==
  (Subscribing /\ fw_api \in Levels /\ \A N \in Levels : Exported(N)) =>
     /\ \A i \in 1 .. Len(SubscribeCalls) :
          (SubscribeCalls[i].rc # ERROR_SUCCESS /\ SubscribeCalls[i].arg > FW_API_LOW) =>
             /\ i < Len(SubscribeCalls)
             /\ SubscribeCalls[i + 1].arg = SubscribeCalls[i].arg - 1
     /\ last.ret <=> \E i \in 1 .. Len(SubscribeCalls) :
                       SubscribeCalls[i].rc = ERROR_SUCCESS

(* C2: a level that is not exported is skipped.  If some level at or       *)
(* below fw_api is exported and accepted by the engine,                    *)
(* fw_monitor_subscribe() returns TRUE with the subscription of the        *)
(* highest such level; if there is none it returns FALSE.                  *)
C2_FallThrough ==
  (Subscribing /\ fw_api \in Levels) =>
     LET avail == { N \in Levels : N <= fw_api /\ Exported(N) /\ last.in.sub[N] }
     IN  IF avail # { }
           THEN /\ last.ret
                /\ subscriptions # << >>
                /\ subscriptions[Len(subscriptions)] = Highest(avail)
           ELSE ~last.ret

C4_LastSubscribeError ==
  (Subscribing /\ ~last.ret /\ SubscribeCalls # << >>) =>
     fw_errno = SubscribeCalls[Len(SubscribeCalls)].rc

(* C5: with fw_api outside 0 .. 4, fw_monitor_subscribe() and              *)
(* fw_dump_events() return FALSE with fw_errno = ERROR_INVALID_DATA and    *)
(* make no subscribe call and no enum call, at no level.                   *)
C5_IllegalLevel ==
  (fw_api \notin Levels /\ (Subscribing \/ last.op = "fw_dump_events")) =>
     /\ ~last.ret
     /\ fw_errno = ERROR_INVALID_DATA
     /\ \A i \in 1 .. Len(calls) :
          calls[i].fn \notin {"FwpmNetEventSubscribe", "FwpmNetEventEnum",
                              "FwpmNetEventCreateEnumHandle0"}
     /\ subscriptions = << >>

(* C5, its case: fw_api is 5, every level is exported and the engine       *)
(* would accept every level, and fw_monitor_start() came to                *)
(* fw_monitor_subscribe().                                                 *)
C5_Witness ==
  /\ Subscribing
  /\ fw_api = FW_API_HIGH + 1
  /\ \A N \in Levels : Exported(N) /\ last.in.sub[N]
  /\ fw_errno = ERROR_INVALID_DATA

-----------------------------------------------------------------------------
(* The caches (SpecCache).                                                 *)

IsPrefix(s, t) == Len(s) <= Len(t) /\ SubSeq(t, 1, Len(s)) = s

Delivered == last.op = "fw_event_callback"

(* The keys the resolvers were asked for by the last operation.            *)
AskedFilters ==
  { calls[i].arg : i \in { j \in 1 .. Len(calls) : calls[j].fn = "FwpmFilterGetById0" } }

AskedSids ==
  { calls[i].arg : i \in { j \in 1 .. Len(calls) : calls[j].fn = "LookupAccountSid" } }

(* C6: while the caches live, the resolvers are asked once for a key at    *)
(* most.  What a resolver was asked for is what the cache holds, one       *)
(* entry for a key, in the order of the first lookups; a callback leaves   *)
(* the entries it found as they were and asks for no key that had an       *)
(* entry, whatever the resolver would answer now.                          *)
C6_OneResolutionPerKey ==
  /\ fw_lists =>
       /\ Len(fw_filter_list) = Len(resolved.filter)
       /\ Len(fw_SID_list) = Len(resolved.sid)
       /\ \A i \in 1 .. Len(fw_filter_list) :
            fw_filter_list[i].value = resolved.filter[i].key
       /\ \A i \in 1 .. Len(fw_SID_list) :
            fw_SID_list[i].sid_copy.bytes = resolved.sid[i].key
  /\ \A i, j \in 1 .. Len(resolved.filter) :
       resolved.filter[i].key = resolved.filter[j].key => i = j
  /\ \A i, j \in 1 .. Len(resolved.sid) :
       resolved.sid[i].key = resolved.sid[j].key => i = j
  /\ Delivered =>
       /\ IsPrefix(last.pre.fw_filter_list, fw_filter_list)
       /\ IsPrefix(last.pre.fw_SID_list, fw_SID_list)
       /\ \A i \in 1 .. Len(last.pre.fw_filter_list) :
            last.pre.fw_filter_list[i].value \notin AskedFilters
       /\ \A i \in 1 .. Len(last.pre.fw_SID_list) :
            last.pre.fw_SID_list[i].sid_copy.bytes \notin AskedSids
       /\ Len(calls) = Cardinality(AskedFilters) + Cardinality(AskedSids)

(* C6, its case: a callback looked up a filter that had an entry while     *)
(* the resolver would have given another name, and a user that had an      *)
(* entry while the resolver would have given another account.              *)
C6_Witness ==
  /\ Delivered /\ calls = << >>
  /\ \/ \E i \in 1 .. Len(last.pre.fw_filter_list) :
          /\ last.pre.fw_filter_list[i].value = last.in.event.payload.filterId
          /\ last.pre.fw_filter_list[i].name = "?"
          /\ last.in.res.filter.ok
          /\ fw_filter_list[i].name = "?"
     \/ \E i \in 1 .. Len(last.pre.fw_SID_list) :
          /\ last.pre.fw_SID_list[i].sid_copy.bytes = last.in.event.header.userId.bytes
          /\ last.pre.fw_SID_list[i].account = ""
          /\ last.in.res.user.kind = "mapped"
          /\ fw_SID_list[i].account = ""

(* The first n characters of a text.                                       *)
Left(s, n) == IF Len(s) <= n THEN s ELSE SubSeq(s, 1, n)

-----------------------------------------------------------------------------
(* The visibility filter (SpecVis).                                        *)

(* The event is of an IP version the configuration does not show.          *)
IpVersionHidden(header) ==
  /\ "IP_VERSION_SET" \in header.flags
  /\ \/ header.ipVersion = "FWP_IP_VERSION_V4" /\ ~g_cfg.show_ipv4
     \/ header.ipVersion = "FWP_IP_VERSION_V6" /\ ~g_cfg.show_ipv6

Accepted == last.emitted = 1 /\ fw_num_events = last.pre.fw_num_events + 1
                             /\ fw_num_ignored = last.pre.fw_num_ignored
Rejected == last.emitted = 0 /\ fw_num_events = last.pre.fw_num_events
                             /\ fw_num_ignored = last.pre.fw_num_ignored + 1

(* The program of the event is on the program exclusion list, by its full  *)
(* name or by its base name.                                               *)
ProgramExcluded(header) ==
  /\ "APP_ID_SET" \in header.flags /\ header.appId # NoPath
  /\ \/ volume_to_path(header.appId) \in excl.program
     \/ basename(volume_to_path(header.appId)) \in excl.program

(* The text of the local or of the remote address of the event is on the   *)
(* address exclusion list.                                                 *)
AddressExcluded(header) ==
  LET af == IF header.ipVersion = "FWP_IP_VERSION_V4" THEN "AF_INET" ELSE "AF_INET6"
  IN  \/ "LOCAL_ADDR_SET" \in header.flags /\ inet_ntop(af, header.localAddr) \in excl.address
      \/ "REMOTE_ADDR_SET" \in header.flags /\ inet_ntop(af, header.remoteAddr) \in excl.address

(* The user of the event has an entry whose account is the logged-on       *)
(* user, whatever the case of the letters.                                 *)
UserIsLoggedOn(header) ==
  /\ "USER_ID_SET" \in header.flags /\ header.userId # NoSid
  /\ \E i \in 1 .. Len(fw_SID_list) :
       /\ EqualSid(header.userId, fw_SID_list[i].sid_copy)
       /\ stricmp(fw_SID_list[i].account, fw_logged_on_user) = 0

C9_SelfSuppression ==
  ( /\ Delivered /\ g_cfg.show_user /\ ~g_cfg.show_all
    /\ last.in.event.type \in Decoded
    /\ UserIsLoggedOn(last.in.event.header) ) => Rejected

(* C10: without show_all, an event a callback flushed has no program on    *)
(* the program exclusion list and no address on the address exclusion      *)
(* list.                                                                   *)
C10_ExcludedNeverEmitted ==
  (Delivered /\ ~g_cfg.show_all /\ last.emitted > 0) =>
     /\ ~ProgramExcluded(last.in.event.header)
     /\ ~AddressExcluded(last.in.event.header)

(* C11: a callback rejects every event that has no program and no user:    *)
(* the event is not flushed and fw_num_ignored is one more, whatever the   *)
(* configuration is.                                                       *)
C11_NoProgramNoUser ==
  ( /\ Delivered
    /\ last.in.event.type \in Decoded
    /\ "APP_ID_SET" \notin last.in.event.header.flags
    /\ "USER_ID_SET" \notin last.in.event.header.flags ) => Rejected

(* C12: a callback rejects an event of an IP version the configuration     *)
(* hides before it does anything else: fw_num_ignored is one more,         *)
(* fw_num_events and the two caches are as they were, and no call was      *)
(* made on the engine or on the resolver of accounts.                      *)
C12_HiddenVersionFirst ==
  (Delivered /\ IpVersionHidden(last.in.event.header)) =>
     /\ Rejected
     /\ fw_filter_list = last.pre.fw_filter_list
     /\ fw_SID_list = last.pre.fw_SID_list
     /\ calls = << >>
     /\ last.reads = { }

(* C12, its case: the event of the hidden IP version has a user and a      *)
(* package that have no entry in the cache, so that decoding it would      *)
(* have asked the resolver of accounts.                                    *)
C12_Witness ==
  /\ Delivered /\ IpVersionHidden(last.in.event.header)
  /\ last.in.event.type \in Decoded
  /\ {"USER_ID_SET", "PACKAGE_ID_SET"} \subseteq last.in.event.header.flags
  /\ \A i \in 1 .. Len(fw_SID_list) :
       /\ ~EqualSid(last.in.event.header.userId, fw_SID_list[i].sid_copy)
       /\ ~EqualSid(last.in.event.header.packageSid, fw_SID_list[i].sid_copy)
  /\ fw_num_ignored = last.pre.fw_num_ignored + 1

(* C13: a callback counts its event once: it is flushed and fw_num_events  *)
(* is one more, or it is dropped and fw_num_ignored is one more, whatever  *)
(* the type of the event is.                                               *)
C13_CountedOnce ==
  Delivered => (Accepted \/ Rejected)

-----------------------------------------------------------------------------
(* The decoding at every level (SpecDecode).                               *)

C15_EndToEnd ==
  ( /\ Delivered /\ ~g_cfg.show_all
    /\ last.in.event.type = CLASSIFY_DROP
    /\ ~IpVersionHidden(last.in.event.header)
    /\ "APP_ID_SET" \notin last.in.event.header.flags
    /\ "USER_ID_SET" \in last.in.event.header.flags
    /\ last.in.res.user.kind = "mapped"
    /\ stricmp(last.in.res.user.account, fw_logged_on_user) # 0
    /\ last.in.event.payload.msFwpDirection = 0 ) =>
     /\ last.direction = "in"
     /\ Accepted

(* The direction C16 gives to a direction code: outbound for the codes     *)
(* OUT and OUTBOUND, inbound for every other code and for a code that is   *)
(* absent or zero.                                                         *)
DirectionOf(code, absent) ==
  IF ~absent /\ code # 0 /\ code \in {FWP_DIRECTION_OUT, FWP_DIRECTION_OUTBOUND}
    THEN "out" ELSE "in"

(* C16: a classify event that a callback or fw_dump_events() decodes       *)
(* gets the direction of its direction code, never none.  (An entry of     *)
(* fw_dump_events() at level 0 has no direction code.)                     *)
C16_Direction ==
  /\ ( /\ Delivered
       /\ last.in.event.type \in {CLASSIFY_DROP, CLASSIFY_ALLOW}
       /\ event_slot(last.in.event.type) \in last.slots
       /\ ~IpVersionHidden(last.in.event.header) ) =>
        last.direction = DirectionOf(last.in.event.payload.msFwpDirection, FALSE)
  /\ ( /\ last.op = "fw_dump_events"
       /\ last.slots # { }
       /\ Len(last.in.entries) = 1
       /\ last.in.entries[1].event.type \in {CLASSIFY_DROP, CLASSIFY_ALLOW} ) =>
        last.direction = DirectionOf(last.in.entries[1].event.payload.msFwpDirection,
                                     fw_api = 0)

C18_NoNullRead ==
  (Delivered /\ last.in.event.type \in Decoded) =>
     /\ ~last.fault
     /\ \A r \in last.reads : r[1] \in last.slots


-----------------------------------------------------------------------------
(* The threads of the engine (SpecConc).                                   *)

(* C19: a stop synchronizes with the callbacks that run.  No callback      *)
(* reads a cache that fw_exit() freed, calls the engine with the handle    *)
(* that fw_monitor_stop (FALSE) closed, or calls through an entry point    *)
(* that fw_exit() unloaded.                                                *)
C19_StopSynchronizes ==
  \A t \in 1 .. MaxThreads : inflight[t].misuse = "none"

(* C20: the insert on a miss excludes the other threads.  Under every      *)
(* interleaving of the callbacks neither cache has two entries of one key, *)
(* and no key is given twice to its resolver.                              *)
C20_InsertOnce ==
  /\ \A i, j \in 1 .. Len(fw_filter_list) :
       fw_filter_list[i].value = fw_filter_list[j].value => i = j
  /\ \A i, j \in 1 .. Len(fw_SID_list) :
       EqualSid(fw_SID_list[i].sid_copy, fw_SID_list[j].sid_copy) => i = j
  /\ \A i, j \in 1 .. Len(resolved.filter) :
       resolved.filter[i].key = resolved.filter[j].key => i = j
  /\ \A i, j \in 1 .. Len(resolved.sid) :
       resolved.sid[i].key = resolved.sid[j].key => i = j

(* C21: no increment of a counter is lost when callbacks run side by      *)
(* side.  The callback that returns leaves fw_num_events one more than it  *)
(* was when it returned, as in a serial execution of the same events.      *)
C21_NoLostIncrement ==
  [][ (\E t \in 1 .. MaxThreads :
         inflight[t].pc = "count" /\ inflight'[t].pc = "idle")
        => fw_num_events' = fw_num_events + 1 ]_vars

-----------------------------------------------------------------------------
(* The engine handle and the subscription over the session (Spec).         *)

UsesEngine == {"fw_monitor_start", "fw_dump_events", "fw_enumerate_callouts"}

IsOpen(c) == c.fn = "FwpmEngineOpen0"

(* C22: an operation that finds the engine open does not call              *)
(* FwpmEngineOpen0() and leaves the handle; FwpmEngineOpen0() succeeds     *)
(* only when the handle was invalid, once in an operation; and only        *)
(* fw_monitor_stop() and fw_exit() make a valid handle invalid.  So the    *)
(* engine is opened at most once between two stops.                        *)
C22_OpenOnce ==
  [][ /\ (last'.op \in UsesEngine /\ fw_engine_handle # INVALID_HANDLE_VALUE) =>
            /\ fw_engine_handle' = fw_engine_handle
            /\ \A i \in 1 .. Len(calls') : ~IsOpen(calls'[i])
      /\ \A i, j \in 1 .. Len(calls') :
            ( /\ IsOpen(calls'[i]) /\ calls'[i].rc = ERROR_SUCCESS
              /\ IsOpen(calls'[j]) ) =>
               (i = j /\ fw_engine_handle = INVALID_HANDLE_VALUE)
      /\ (fw_engine_handle # INVALID_HANDLE_VALUE /\
          fw_engine_handle' = INVALID_HANDLE_VALUE) =>
            last'.op \in {"fw_monitor_stop", "fw_exit"} ]_vars

(* C22, its case: fw_enumerate_callouts() succeeded on an engine that was  *)
(* open: it made engine calls, none of them FwpmEngineOpen0().             *)
C22_Witness ==
  /\ last.op = "fw_enumerate_callouts" /\ last.ret
  /\ fw_engine_handle # INVALID_HANDLE_VALUE
  /\ calls # << >>
  /\ \A i \in 1 .. Len(calls) : ~IsOpen(calls[i])

(* C23: fw_monitor_stop(), forced or not, that finds the engine handle     *)
(* invalid (never opened, or stopped before) makes no call; after every    *)
(* fw_monitor_stop() both handles are invalid; a forced stop does not      *)
(* call FwpmNetEventUnsubscribe0().                                        *)
C23_StopIdempotent ==
  [][ last'.op = "fw_monitor_stop" =>
        /\ fw_event_handle' = INVALID_HANDLE_VALUE
        /\ fw_engine_handle' = INVALID_HANDLE_VALUE
        /\ fw_engine_handle = INVALID_HANDLE_VALUE => calls' = << >>
        /\ last'.in => \A i \in 1 .. Len(calls') :
                          calls'[i].fn # "FwpmNetEventUnsubscribe0" ]_vars

(* C23, its case: a forced stop with nothing open, after fw_init().        *)
C23_Witness ==
  /\ last.op = "fw_monitor_stop" /\ last.in
  /\ last.pre.fw_event_handle = INVALID_HANDLE_VALUE
  /\ fw_lists /\ calls = << >>
  /\ fw_engine_handle = INVALID_HANDLE_VALUE

(* C24: between the operations, a valid subscription handle comes with a   *)
(* valid engine handle.                                                    *)
C24_EventNeedsEngine ==
  fw_event_handle # INVALID_HANDLE_VALUE => fw_engine_handle # INVALID_HANDLE_VALUE

(* C24, its case: a subscription handle that is valid.                     *)
C24_Witness ==
  /\ fw_event_handle # INVALID_HANDLE_VALUE
  /\ fw_engine_handle # INVALID_HANDLE_VALUE
  /\ subscriptions # << >>

(* C25: fw_monitor_stop (FALSE), also the one of fw_exit(), calls          *)
(* FwpmEngineClose0() only when every subscription of the engine has been  *)
(* unsubscribed: there was none, or there was one and it was unsubscribed  *)
(* by this stop.                                                           *)
C25_UnsubscribeFirst ==
  [][ ( /\ \/ last'.op = "fw_exit"
           \/ last'.op = "fw_monitor_stop" /\ ~last'.in
        /\ \E i \in 1 .. Len(calls') : calls'[i].fn = "FwpmEngineClose0" ) =>
          \/ subscriptions = << >>
          \/ /\ Len(subscriptions) = 1
             /\ \E i, j \in 1 .. Len(calls') :
                  /\ i < j
                  /\ calls'[i].fn = "FwpmNetEventUnsubscribe0"
                  /\ calls'[j].fn = "FwpmEngineClose0" ]_vars

(* C26: the engine has one subscription of the session at most, and        *)
(* fw_monitor_start() makes no subscribe call when there is one.           *)
C26_OneSubscription ==
  /\ Len(subscriptions) <= 1
  /\ last.op = "fw_monitor_start" =>
       \A i \in 1 .. Len(calls) :
         IsSubscribe(calls[i]) => Len(subscriptions) - (IF last.ret THEN 1 ELSE 0) = 0

(* C27: when FwpmEngineOpen0() fails with rc, or is not loaded, the         *)
(* operation that needed the engine returns FALSE with fw_errno = rc        *)
(* (FW_FUNC_ERROR), the handle stays invalid and no other engine call is    *)
(* made.                                                                    *)
C27_OpenFailure ==
  /\ ( /\ last.op \in UsesEngine
       /\ \E i \in 1 .. Len(calls) : IsOpen(calls[i]) /\ calls[i].rc # ERROR_SUCCESS ) =>
        /\ ~last.ret
        /\ Len(calls) = 1
        /\ fw_errno = calls[1].rc
        /\ fw_engine_handle = INVALID_HANDLE_VALUE
  /\ ( /\ last.op \in UsesEngine
       /\ funcs # { } /\ Fn("FwpmEngineOpen") \notin funcs
       /\ last.op = "fw_monitor_start" => fw_policy_handle # INVALID_HANDLE_VALUE
       /\ last.op = "fw_dump_events" => fw_api \in Levels ) =>
        /\ ~last.ret
        /\ calls = << >>
        /\ fw_errno = FW_FUNC_ERROR
        /\ fw_engine_handle = INVALID_HANDLE_VALUE

(* C27, its case: fw_dump_events() whose FwpmEngineOpen0() failed.         *)
C27_Witness ==
  /\ last.op = "fw_dump_events" /\ ~last.ret
  /\ Len(calls) = 1 /\ IsOpen(calls[1]) /\ calls[1].rc # ERROR_SUCCESS
  /\ fw_errno = calls[1].rc

(* C28: fw_dump_events() tries the FwpmNetEventEnumN() entry points from   *)
(* the configured level down: when the call of a level above the lowest    *)
(* fails, the next lower level is called.                                  *)
C28_EnumDescends ==
  last.op = "fw_dump_events" =>
    \A i \in 1 .. Len(calls) :
      ( /\ calls[i].fn = "FwpmNetEventEnum"
        /\ calls[i].rc # ERROR_SUCCESS
        /\ calls[i].arg > FW_API_LOW ) =>
         \E j \in 1 .. Len(calls) :
           /\ j > i
           /\ calls[j].fn = "FwpmNetEventEnum"
           /\ calls[j].arg = calls[i].arg - 1

(* C39: the live path and the batch path decide alike.  In every state of  *)
(* a session with a subscription, for every event the engine may give,    *)
(* the callback of the configured level and one round of the loop of      *)
(* fw_dump_events() at that level emit alike and change fw_num_events and *)
(* fw_num_ignored alike, whenever neither reads through a NULL pointer.   *)
C39_PathsDecideAlike ==
  (Alive /\ subscriptions # << >> /\ fw_api \in Levels) =>
    \A d \in DecodeDeliveries :
      LET live  == FW_EVENT_CALLBACK(Globals, fw_api, d.event, d.res, d.ub)
          batch == enum_entry(Globals, fw_api, d)
      IN  (~live.fault /\ ~batch.fault) =>
            /\ live.emitted = batch.emitted
            /\ live.fw_num_events = batch.fw_num_events
            /\ live.fw_num_ignored = batch.fw_num_ignored

(* C35: fw_dump_events() returns TRUE only when FwpmNetEventEnumN() of the *)
(* configured level was called and succeeded; when the entry point of the  *)
(* level is not exported it returns FALSE and fw_errno is not              *)
(* ERROR_SUCCESS.                                                          *)
C35_DumpSuccess ==
  ( last.op = "fw_dump_events" /\ ~last.fault ) =>
     /\ last.ret =>
           \E i \in 1 .. Len(calls) :
              /\ calls[i].fn = "FwpmNetEventEnum" /\ calls[i].arg = fw_api
              /\ calls[i].rc = ERROR_SUCCESS
     /\ EnumFn(fw_api) \notin env.exports =>
           ~last.ret /\ fw_errno # ERROR_SUCCESS

(* C36: fw_dump_events() and fw_enumerate_callouts() destroy the enum      *)
(* handle once when the engine made one, and never when it made none.      *)
C36_EnumHandleReleased ==
  ( last.op \in {"fw_dump_events", "fw_enumerate_callouts"} /\ ~last.fault ) =>
     LET created   == { i \in 1 .. Len(calls) :
                          /\ calls[i].fn \in {"FwpmNetEventCreateEnumHandle0",
                                               "FwpmCalloutCreateEnumHandle0"}
                          /\ calls[i].rc = ERROR_SUCCESS }
         destroyed == { i \in 1 .. Len(calls) :
                          calls[i].fn \in {"FwpmNetEventDestroyEnumHandle0",
                                           "FwpmCalloutDestroyEnumHandle0"} }
     IN  /\ Cardinality(destroyed) = Cardinality(created)
         /\ \A j \in destroyed : \E i \in created : i < j

(* C37: when fw_monitor_start() or fw_enumerate_callouts() returns FALSE,  *)
(* fw_errno is not ERROR_SUCCESS.                                          *)
C37_ErrorCodeLeft ==
  ( /\ last.op \in {"fw_monitor_start", "fw_enumerate_callouts"}
    /\ ~last.fault /\ ~last.ret ) => fw_errno # ERROR_SUCCESS

(* C38: a fw_monitor_start() that returns FALSE leaves the engine handle,  *)
(* the subscription handle and the subscriptions of the engine as they     *)
(* were before the call.                                                   *)
C38_FailedStartIsIdle ==
  [][ ( last'.op = "fw_monitor_start" /\ ~last'.fault /\ ~last'.ret ) =>
        UNCHANGED << fw_engine_handle, fw_event_handle, subscriptions >> ]_vars

-----------------------------------------------------------------------------
(* The rules of the policy store (SpecRules).                              *)

(* C29: when FWEnumFirewallRules() fails with rc, fw_enumerate_rules()     *)
(* returns -1 with fw_errno = rc, prints no rule, leaves fw_num_rules and  *)
(* the two caches, and does not call again.                                *)
C29_EnumFailure ==
  [][ ( /\ last'.op = "fw_enumerate_rules"
        /\ calls' # << >>
        /\ calls'[1].rc # ERROR_SUCCESS ) =>
          /\ last'.ret = -1
          /\ fw_errno' = calls'[1].rc
          /\ last'.reported = << >> /\ last'.emitted = 0
          /\ UNCHANGED << fw_num_rules, fw_filter_list, fw_SID_list >>
          /\ Len(calls') = 1 ]_vars

(* C29, its case: fw_enumerate_rules() failed when rules had been counted  *)
(* and the caches had entries.                                             *)
C29_Witness ==
  /\ last.op = "fw_enumerate_rules" /\ ~last.fault
  /\ last.ret = -1
  /\ fw_errno = "FW_E_RULES"
  /\ fw_num_rules > 0
  /\ fw_filter_list # << >> /\ fw_SID_list # << >>

(* C30: fw_enumerate_rules() prints every rule of the list the engine gave *)
(* once and in the order of the list, whatever the Status of the rule, and *)
(* returns the number of rules it printed.                                 *)
C30_EveryRule ==
  ( /\ last.op = "fw_enumerate_rules" /\ ~last.fault
    /\ last.in.rc = ERROR_SUCCESS ) =>
     /\ Len(last.reported) = Len(last.in.rules)
     /\ \A i \in 1 .. Len(last.reported) : last.reported[i].rule = last.in.rules[i]
     /\ last.ret = Len(last.reported)

(* C30, its case: a list of two rules, one ignored and one with a         *)
(* semantic error, and a count that is more than the list has.            *)
C30_Witness ==
  /\ last.op = "fw_enumerate_rules" /\ ~last.fault
  /\ last.ret = 2
  /\ last.in.rule_count = 3
  /\ last.in.rules[1].Status = "FW_RULE_STATUS_IGNORED"
  /\ last.in.rules[2].Status = "FW_RULE_STATUS_SEMANTIC_ERROR_PORTS"
  /\ Len(last.reported) = 2

(* C31: a rule whose code is in the range of the semantic errors           *)
(* (0x0010xxxx) is reported with its class: the text printed for the rule  *)
(* carries the Status the class is taken from.                             *)
C31_ClassCarried ==
  ( /\ last.op = "fw_enumerate_rules" /\ ~last.fault
    /\ last.in.rc = ERROR_SUCCESS ) =>
     \A i \in 1 .. Len(last.reported) :
        ( FW_RULE_STATUS_CLASS(last.reported[i].rule.Status)
            = FW_RULE_STATUS("FW_RULE_STATUS_SEMANTIC_ERROR") )
           => "Status" \in last.reported[i].printed

-----------------------------------------------------------------------------
(* The operations that fail (SpecFail).                                    *)

FallibleOps ==
  {"fw_monitor_start", "fw_dump_events", "fw_enumerate_callouts", "fw_enumerate_rules"}

(* The record `l` of an operation says that it failed, that it succeeded,  *)
(* that the engine refused nothing during it.                              *)
Failed(l) ==
  /\ l.op \in FallibleOps /\ ~l.fault
  /\ IF l.op = "fw_enumerate_rules" THEN l.ret < 0 ELSE ~l.ret

Succeeded(l) ==
  /\ l.op \in FallibleOps /\ ~l.fault
  /\ IF l.op = "fw_enumerate_rules" THEN l.ret >= 0 ELSE l.ret

EngineAgrees(l) ==
  CASE l.op = "fw_monitor_start"   -> l.in \in StartsFine
    [] l.op = "fw_enumerate_rules" -> l.in.rc = ERROR_SUCCESS
    [] OTHER -> l.in.open = ERROR_SUCCESS /\ l.in.create = ERROR_SUCCESS /\ l.in.enum

(* C32: an operation that fails leaves the filter-name cache and the       *)
(* identity cache as they were, and another operation called right after   *)
(* it, in a process where fw_init() succeeded, succeeds when the engine    *)
(* refuses nothing.                                                        *)
C32_FailureIsLocal ==
  [][ /\ Failed(last') => UNCHANGED << fw_filter_list, fw_SID_list >>
      /\ ( /\ Failed(last) /\ last'.op \in FallibleOps /\ last'.op # last.op
            /\ fw_policy_handle # INVALID_HANDLE_VALUE
            /\ EngineAgrees(last') ) => Succeeded(last') ]_vars

(* C32, its case: the engine refused to open, the operation failed, and    *)
(* the rules are listed after it with the caches still filled; the error   *)
(* code of the failure is still in fw_errno.                               *)
C32_Witness ==
  /\ last.op = "fw_enumerate_rules" /\ ~last.fault
  /\ last.ret = 1
  /\ fw_errno = "FWP_E_OPEN"
  /\ fw_filter_list # << >> /\ fw_SID_list # << >>

-----------------------------------------------------------------------------
(* The reserved filter and the keys of the identity cache (SpecCache).     *)

(* C33: a callback that looks up the filter 0 (the filter of a capability  *)
(* event that has none) asks the engine for no filter and leaves the       *)
(* filter-name cache as it was, whatever the cache holds.                  *)
C33_ZeroFilter ==
  ( /\ last.op = "fw_event_callback" /\ ~last.fault
    /\ last.in.event.type = CAPABILITY_DROP
    /\ last.in.event.payload.filterId = 0 ) =>
     /\ fw_filter_list = last.pre.fw_filter_list
     /\ \A i \in 1 .. Len(calls) : calls[i].fn # "FwpmFilterGetById0"
     /\ \A i \in 1 .. Len(fw_filter_list) : fw_filter_list[i].value # 0

(* C33, its case: the filter 0 is looked up when the cache has entries.    *)
C33_Witness ==
  /\ last.op = "fw_event_callback" /\ ~last.fault
  /\ last.in.event.type = CAPABILITY_DROP
  /\ last.in.event.payload.filterId = 0
  /\ Len(fw_filter_list) = 2

(* The SIDs of the event of the last callback.                             *)
EventSids ==
  { last.in.event.header.userId, last.in.event.header.packageSid } \ { NoSid }

(* C34: the identity cache is keyed by the bytes of the SID: no two        *)
(* entries have equal bytes, every entry holds a copy of its own and not   *)
(* the SID object of an event, and after a callback each SID of the event  *)
(* has its one entry, which is the entry the cache had for these bytes if  *)
(* it had one, whatever object the bytes came in.                          *)
C34_KeysByValue ==
  /\ \A i, j \in 1 .. Len(fw_SID_list) :
        EqualSid(fw_SID_list[i].sid_copy, fw_SID_list[j].sid_copy) => i = j
  /\ \A i \in 1 .. Len(fw_SID_list) : fw_SID_list[i].sid_copy.obj = 0
  /\ ( last.op = "fw_event_callback" /\ ~last.fault ) =>
        /\ SubSeq(fw_SID_list, 1, Len(last.pre.fw_SID_list)) = last.pre.fw_SID_list
        /\ \A sid \in EventSids :
              Cardinality({ i \in 1 .. Len(fw_SID_list) :
                              EqualSid(sid, fw_SID_list[i].sid_copy) }) = 1

(* C34, its case: the user and the package of one event are two SID        *)
(* objects with the same bytes, looked up when the cache is empty: one     *)
(* entry is added and one account is asked for.                            *)
C34_Witness ==
  /\ last.op = "fw_event_callback" /\ ~last.fault
  /\ last.in.event.header.userId = Sid(1, 3)
  /\ last.in.event.header.packageSid = Sid(2, 3)
  /\ last.pre.fw_SID_list = << >>
  /\ Len(fw_SID_list) = 1
  /\ Len(calls) = 1

====
